---- MODULE Spec2Model ----
(***************************************************************************)
(* MT5 trade-algorithm monitor: the pattern detectors of MT5TradeMonitor   *)
(* and AdvancedAnalytics, the statistics calculator and the signature      *)
(* resolver, as state machines over bounded deals/orders tables.           *)
(*                                                                         *)
(* Numbers.  Python floats are modelled as exact fractions <<n, d>> in     *)
(* lowest terms with d > 0; <<1, 0>> is float('inf') and <<0, 0>> is NaN.  *)
(* Times are counted in ticks of 30 seconds since a Monday 00:00:00 (TLC's *)
(* integers are 32 bits wide and the detectors square time differences).   *)
(* Volumes are in hundredths of a lot, profits in whole account-currency   *)
(* units, prices in points of 0.00001.                                     *)
(***************************************************************************)
EXTENDS Integers, Sequences, FiniteSets, TLC

VARIABLES
    deals_df,          \* the deals table: a sequence of deal rows
    orders_df,         \* the orders table: a sequence of order rows
    pc,                \* position inside the running operation
    patterns,          \* identify_algorithm_type's local list `patterns`
    stats,             \* its local `stats` (calculate_trade_statistics)
    likely_algorithm,  \* its local `likely_algorithm`
    signature,         \* the AlgorithmSignature returned, or NoSignature
    analytics,         \* results of the AdvancedAnalytics detectors, by name
    rerun,             \* the AlgorithmSignature of a second call on the same tables
    connected,         \* self.connected
    history_deals,     \* the deals the terminal holds (mt5.history_deals_get)
    history_orders,    \* the orders the terminal holds (mt5.history_orders_get)
    now,               \* datetime.now()
    last_deal_time,    \* monitor_live's local `last_deal_time`
    callbacks,         \* calls of monitor_live's callback so far
    fetch_log          \* the last message logged by a fetch

\* the monitor's connection, the terminal and the live loop
live == <<connected, history_deals, history_orders, now, last_deal_time, callbacks,
          fetch_log>>

vars == <<deals_df, orders_df, pc, patterns, stats, likely_algorithm,
          signature, analytics, rerun, live>>

-----------------------------------------------------------------------------
(* Bounds of the model *)

MaxPatternNames == 3
MaxDeals == 4
MaxOrders == 5
MaxPolls == 3
MaxHistory == 2

-----------------------------------------------------------------------------
(* Exact arithmetic on fractions *)

Abs(x) == IF x < 0 THEN -x ELSE x

RECURSIVE Gcd(_, _)
Gcd(a, b) == IF b = 0 THEN a ELSE Gcd(b, a % b)

Frac(n, d) ==
    IF d = 0 THEN (IF n > 0 THEN <<1, 0>> ELSE IF n < 0 THEN <<-1, 0>> ELSE <<0, 0>>)
    ELSE LET s == IF d < 0 THEN -1 ELSE 1
             g == Gcd(Abs(n), Abs(d))
         IN  <<(s * n) \div g, (s * d) \div g>>

Num(n) == <<n, 1>>
Inf == <<1, 0>>
NaN == <<0, 0>>
IsNaN(a) == a = NaN
IsFinite(a) == a[2] # 0

\* a/b < c/d for a, c >= 0 and b, d > 0, by whole parts and remainders
\* (no product is formed, so nothing overflows)
RECURSIVE LessPos(_, _, _, _)
LessPos(a, b, c, d) ==
    IF a \div b # c \div d THEN a \div b < c \div d
    ELSE IF c % d = 0 THEN FALSE
    ELSE IF a % b = 0 THEN TRUE
    ELSE LessPos(d, c % d, b, a % b)

\* a < b as Python compares floats: false when either side is NaN
FLt(a, b) ==
    IF IsNaN(a) \/ IsNaN(b) THEN FALSE
    ELSE IF ~IsFinite(a) THEN (a[1] < 0 /\ b # a)
    ELSE IF ~IsFinite(b) THEN b[1] > 0
    ELSE IF a[1] < 0 /\ b[1] >= 0 THEN TRUE
    ELSE IF a[1] >= 0 /\ b[1] < 0 THEN FALSE
    ELSE IF a[1] < 0 THEN LessPos(0 - b[1], b[2], 0 - a[1], a[2])
    ELSE LessPos(a[1], a[2], b[1], b[2])

FGt(a, b) == FLt(b, a)
FLe(a, b) == ~IsNaN(a) /\ ~IsNaN(b) /\ ~FLt(b, a)
FGe(a, b) == FLe(b, a)

FAdd(a, b) ==
    IF IsFinite(a) /\ IsFinite(b) THEN Frac(a[1] * b[2] + b[1] * a[2], a[2] * b[2])
    ELSE IF IsNaN(a) \/ IsNaN(b) THEN NaN
    ELSE IF IsFinite(a) THEN b
    ELSE IF IsFinite(b) THEN a
    ELSE IF a = b THEN a ELSE NaN

FMul(a, b) ==
    IF IsFinite(a) /\ IsFinite(b) THEN Frac(a[1] * b[1], a[2] * b[2])
    ELSE Frac(a[1] * b[1], 0)

\* Python's builtin min(a, b): b unless a < b ... returns a when not (b < a)
FMin(a, b) == IF FLt(b, a) THEN b ELSE a
FMax(a, b) == IF FGt(b, a) THEN b ELSE a

-----------------------------------------------------------------------------
(* TradePattern and AlgorithmSignature (the dataclasses) *)

None == [pattern_name |-> "None", confidence |-> NaN, description |-> "None",
         evidence |-> <<>>, metrics |-> <<>>]

\* the KeyError a detector raises when it indexes a column the table lacks
KeyError == [pattern_name |-> "KeyError", confidence |-> NaN, description |-> "KeyError",
             evidence |-> <<>>, metrics |-> <<>>]

IsRaised(p) == p.pattern_name = "KeyError"

TradePattern(name, conf, descr, ev, met) ==
    [pattern_name |-> name, confidence |-> conf, description |-> descr,
     evidence |-> ev, metrics |-> met]

NoSignature == [likely_algorithm |-> "None", confidence |-> NaN, patterns |-> <<>>,
                characteristics |-> [statistics |-> <<>>, pattern_count |-> -1,
                                     analysis_period_days |-> -1]]

AlgorithmSignature(algo, conf, pats, chars) ==
    [likely_algorithm |-> algo, confidence |-> conf, patterns |-> pats,
     characteristics |-> chars]

-----------------------------------------------------------------------------
(* Python helpers used by the resolver *)

\* dict.get(key, default)
Get(dict, key, default) == IF key \in DOMAIN dict THEN dict[key] ELSE default

\* sub in s, for Python strings
Contains(sub, s) ==
    \E i \in 1..(Len(s) - Len(sub) + 1) : SubSeq(s, i, i + Len(sub) - 1) = sub

\* repr() of a str without quote characters
PyRepr(s) == "'" \o s \o "'"

RECURSIVE JoinRepr(_)
JoinRepr(names) ==
    IF Len(names) = 0 THEN ""
    ELSE IF Len(names) = 1 THEN PyRepr(names[1])
    ELSE PyRepr(names[1]) \o ", " \o JoinRepr(Tail(names))

\* str() of a list of str
PyStrList(names) == "[" \o JoinRepr(names) \o "]"

InList(x, list) == \E i \in 1..Len(list) : list[i] = x

-----------------------------------------------------------------------------
(* pandas / numpy helpers over columns (sequences) *)

\* DataFrame.empty
IsEmpty(df) == Len(df) = 0

Range(s) == {s[i] : i \in DOMAIN s}

RECURSIVE SumTo(_, _)
SumTo(s, n) == IF n = 0 THEN 0 ELSE s[n] + SumTo(s, n - 1)

\* Series.sum() of an integer column
Sum(s) == SumTo(s, Len(s))

SumSq(s) == Sum([i \in DOMAIN s |-> s[i] * s[i]])

\* the rows of s that satisfy the boolean mask, in order (df[mask])
RECURSIVE FilterTo(_, _, _)
FilterTo(s, mask, n) ==
    IF n = 0 THEN <<>>
    ELSE IF mask[n] THEN Append(FilterTo(s, mask, n - 1), s[n])
    ELSE FilterTo(s, mask, n - 1)

Filter(s, mask) == FilterTo(s, mask, Len(s))

\* sort_values: rows ordered by an integer key, equal keys keeping their
\* table order (numpy's sort of short arrays is an insertion sort)
StableSort(s, keys) ==
    LET n == Len(s)
        pos == [i \in 1..n |->
                   Cardinality({j \in 1..n : keys[j] < keys[i]})
                   + Cardinality({j \in 1..i : keys[j] = keys[i]})]
    IN  [p \in 1..n |-> s[CHOOSE i \in 1..n : pos[i] = p]]

SortInts(xs) == StableSort(xs, xs)

\* Series.unique(): the distinct values in order of first appearance
RECURSIVE UniqueTo(_, _)
UniqueTo(s, n) ==
    IF n = 0 THEN <<>>
    ELSE LET before == UniqueTo(s, n - 1)
         IN  IF \E i \in 1..(n - 1) : s[i] = s[n] THEN before ELSE Append(before, s[n])

Unique(s) == UniqueTo(s, Len(s))

\* Series.value_counts(): <<value, count>> by falling count, equal counts in
\* order of first appearance
ValueCounts(s) ==
    LET u == Unique(s)
        c == [k \in DOMAIN u |-> Cardinality({i \in DOMAIN s : s[i] = u[k]})]
    IN  StableSort([k \in DOMAIN u |-> <<u[k], c[k]>>], [k \in DOMAIN u |-> 0 - c[k]])

\* mean of an integer column (NaN when it is empty)
Mean(xs) == Frac(Sum(xs), Len(xs))

\* numpy.std(xs) ** 2 (ddof = 0)
PopVariance(xs) ==
    LET n == Len(xs) IN Frac(n * SumSq(xs) - Sum(xs) * Sum(xs), n * n)

\* Series.std() ** 2 (ddof = 1): NaN for fewer than two values
SampleVariance(xs) ==
    LET n == Len(xs) IN Frac(n * SumSq(xs) - Sum(xs) * Sum(xs), n * (n - 1))

\* Series.median() of an integer column
Median(xs) ==
    LET n == Len(xs)
        srt == SortInts(xs)
    IN  IF n = 0 THEN NaN
        ELSE IF n % 2 = 1 THEN Num(srt[(n + 1) \div 2])
        ELSE Frac(srt[n \div 2] + srt[n \div 2 + 1], 2)

\* std < bound, for a standard deviation known by its square
StdLt(variance, bound) ==
    /\ ~IsNaN(variance)
    /\ ~IsNaN(bound)
    /\ FGt(bound, Num(0))
    /\ FLt(variance, FMul(bound, bound))

\* Series.diff() of a sorted column, without the leading NaN
Diffs(times) == [i \in 1..(Len(times) - 1) |-> times[i + 1] - times[i]]

\* .dt accessors of a timestamp held in ticks of 30 seconds
Hour(t) == (t \div 120) % 24
DayOfWeek(t) == (t \div 2880) % 7
Date(t) == t \div 2880
\* Timedelta.days
Days(ticks) == ticks \div 2880
\* Timedelta.total_seconds() / 60
Minutes(ticks) == Frac(ticks, 2)

\* name in df.columns, for a table with rows
HasColumn(df, name) == name \in DOMAIN df[1]

Column(df, name) == [i \in DOMAIN df |-> df[i][name]]

SortByTime(df) == StableSort(df, Column(df, "time"))

Max(S) == CHOOSE x \in S : \A y \in S : y <= x
Min(S) == CHOOSE x \in S : \A y \in S : x <= y

\* an evidence line: the f-string's template and the values formatted into it
Ev(template, args) == <<template, args>>

-----------------------------------------------------------------------------
(* MT5TradeMonitor.detect_position_sizing_pattern *)

\* for i in range(1, len(volumes)): prior deal lost and size >= 1.8 x prior size
\* line 259 without its `profits[i-1] < 0` test
MartingaleCount_AnyResult(volumes, profits) ==
    Cardinality({i \in 2..Len(volumes) : 10 * volumes[i] >= 18 * volumes[i - 1]})

\* lines 258-260: the transitions that raise the lot 1.8 times after a loss
MartingaleCount(volumes, profits) ==
    Cardinality({i \in 2..Len(volumes) :
                    profits[i - 1] < 0 /\ 10 * volumes[i] >= 18 * volumes[i - 1]})

\* cv ** 2, cv = volume_std / volume_mean if volume_mean > 0 else 0
CoefficientOfVariationSq(volumes) ==
    IF Sum(volumes) > 0
        THEN Frac(Len(volumes) * SumSq(volumes) - Sum(volumes) * Sum(volumes),
                  Sum(volumes) * Sum(volumes))
        ELSE Num(0)

\* line 246 tried only when the martingale branch does not apply
IsFixedLot_ShortOnly(volumes) == Len(volumes) <= 3 /\ Cardinality(Range(volumes)) = 1

\* line 246: len(set(volumes)) == 1
IsFixedLot(volumes) == Cardinality(Range(volumes)) = 1

DetectPositionSizingPattern(df) ==
    IF IsEmpty(df) THEN None
    ELSE
    LET volumes == Column(df, "volume")
        n == Len(volumes)
    IN  IF IsFixedLot(volumes) THEN
            TradePattern("Fixed Lot Size", Frac(95, 100),
                "Position sizing strategy analysis",
                <<Ev("All trades use identical lot size: {}", <<volumes[1]>>)>>,
                [k \in {"lot_size"} |-> volumes[1]])
        ELSE IF n > 3 THEN
            LET martingale_count == MartingaleCount(volumes, Column(df, "profit"))
            IN  IF 10 * martingale_count > 3 * n THEN
                    TradePattern("Martingale/Anti-Martingale", Frac(8, 10),
                        "Position sizing strategy analysis",
                        <<Ev("Position size increases after losses in {} instances",
                             <<martingale_count>>)>>,
                        [k \in {"martingale_ratio"} |-> Frac(martingale_count, n)])
                ELSE
                    TradePattern("Unknown", Num(0),
                        "Position sizing strategy analysis", <<>>, <<>>)
        ELSE
            LET cvsq == CoefficientOfVariationSq(volumes)
            IN  IF FLt(cvsq, Frac(4, 100)) THEN
                    TradePattern("Consistent Proportional Sizing", Frac(7, 10),
                        "Position sizing strategy analysis",
                        <<Ev("Low variation in lot sizes (CV: {:.2f})", <<cvsq>>)>>,
                        [k \in {"coefficient_variation"} |-> cvsq])
                ELSE
                    TradePattern("Dynamic/Variable Sizing", Frac(6, 10),
                        "Position sizing strategy analysis",
                        <<Ev("High variation in lot sizes (CV: {:.2f})", <<cvsq>>)>>,
                        [k \in {"coefficient_variation"} |-> cvsq])

-----------------------------------------------------------------------------
(* MT5TradeMonitor.detect_time_based_patterns *)

\* count / len(deals_df), the factor 100 left out
Pct_Share(count, total) == Frac(count, total)

\* count / len(deals_df) * 100
Pct(count, total) == Frac(100 * count, total)

DowNames == <<"Monday", "Tuesday", "Wednesday", "Thursday", "Friday", "Saturday",
              "Sunday">>

DetectTimeBasedPatterns(df) ==
    IF IsEmpty(df) THEN None
    ELSE
    LET times == Column(df, "time")
        hour_counts == ValueCounts([i \in DOMAIN times |-> Hour(times[i])])
        top_hour == hour_counts[1][1]
        top_hour_pct == Pct(hour_counts[1][2], Len(df))
        base == IF FGt(top_hour_pct, Num(50)) THEN
                    [name |-> "Time-Scheduled Trading", conf |-> Frac(85, 100),
                     ev |-> <<Ev("{:.1f}% of trades occur at hour {}",
                                 <<top_hour_pct, top_hour>>)>>]
                ELSE IF FGt(top_hour_pct, Num(30)) THEN
                    [name |-> "Preferred Time Window Trading", conf |-> Frac(7, 10),
                     ev |-> <<Ev("{:.1f}% of trades occur at hour {}",
                                 <<top_hour_pct, top_hour>>)>>]
                ELSE
                    [name |-> "Continuous/24-Hour Trading", conf |-> Frac(6, 10),
                     ev |-> <<Ev("Trades distributed across multiple hours", <<>>)>>]
        time_diffs == Diffs(SortInts(times))
        \* minutes: two ticks each; the standard deviation by its square
        median_interval == FMul(Median(time_diffs), Frac(1, 2))
        var_interval == FMul(SampleVariance(time_diffs), Frac(1, 4))
        regular == /\ Len(time_diffs) > 0
                   /\ StdLt(var_interval, FMul(median_interval, Frac(3, 10)))
                   /\ FLt(median_interval, Num(60))
        dow_counts == ValueCounts([i \in DOMAIN times |-> DayOfWeek(times[i])])
        top_dow == DowNames[dow_counts[1][1] + 1]
        top_dow_pct == Pct(dow_counts[1][2], Len(df))
        ev1 == IF regular
                   THEN Append(base.ev, Ev("Regular trading intervals (~{:.1f} minutes)",
                                           <<median_interval>>))
                   ELSE base.ev
        ev2 == IF FGt(top_dow_pct, Num(40))
                   THEN Append(ev1, Ev("Concentrated trading on {} ({:.1f}%)",
                                       <<top_dow, top_dow_pct>>))
                   ELSE ev1
        keys == {"top_trading_hour", "top_hour_concentration"}
                    \cup (IF regular THEN {"avg_interval_minutes"} ELSE {})
    IN  TradePattern(base.name,
            IF regular THEN FMax(base.conf, Frac(8, 10)) ELSE base.conf,
            "Time-based trading pattern analysis",
            ev2,
            [k \in keys |-> IF k = "top_trading_hour" THEN Num(top_hour)
                            ELSE IF k = "top_hour_concentration" THEN top_hour_pct
                            ELSE median_interval])

-----------------------------------------------------------------------------
(* MT5TradeMonitor.detect_risk_management_pattern *)

\* the usage test with the bound included
UsesMostly_Inclusive(usage) == FGe(usage, Num(80))

\* lines 379-391: sl_usage > 80, tp_usage > 80
UsesMostly(usage) == FGt(usage, Num(80))

\* lines 363-425 without the early return for an empty deals table
RiskManagementAnalysis(df, orders) ==
    \* lines 373-374: orders_df['sl'], orders_df['tp']
    IF ~IsEmpty(orders) /\ ~(HasColumn(orders, "sl") /\ HasColumn(orders, "tp")) THEN KeyError
    ELSE
    LET n_orders == Len(orders)
        sl_usage == Pct(Cardinality({i \in DOMAIN orders : orders[i].sl > 0}), n_orders)
        tp_usage == Pct(Cardinality({i \in DOMAIN orders : orders[i].tp > 0}), n_orders)
        from_orders ==
            IF IsEmpty(orders) THEN
                [name |-> "Unknown Risk Management", conf |-> Frac(5, 10), ev |-> <<>>]
            ELSE IF UsesMostly(sl_usage) /\ UsesMostly(tp_usage) THEN
                [name |-> "Strict Risk Management (SL + TP)", conf |-> Frac(9, 10),
                 ev |-> <<Ev("Stop Loss used in {:.1f}% of trades", <<sl_usage>>),
                          Ev("Take Profit used in {:.1f}% of trades", <<tp_usage>>)>>]
            ELSE IF UsesMostly(sl_usage) THEN
                [name |-> "Conservative (SL Only)", conf |-> Frac(8, 10),
                 ev |-> <<Ev("Stop Loss used in {:.1f}% of trades", <<sl_usage>>)>>]
            ELSE IF UsesMostly(tp_usage) THEN
                [name |-> "Profit Target Based", conf |-> Frac(75, 100),
                 ev |-> <<Ev("Take Profit used in {:.1f}% of trades", <<tp_usage>>)>>]
            ELSE
                [name |-> "Flexible/Manual Risk Management", conf |-> Frac(6, 10),
                 ev |-> <<Ev("Variable use of stop loss and take profit", <<>>)>>]
        profits == Column(df, "profit")
        wins == Filter(profits, [i \in DOMAIN profits |-> profits[i] > 0])
        losses == Filter(profits, [i \in DOMAIN profits |-> profits[i] < 0])
        both == Len(wins) > 0 /\ Len(losses) > 0
        avg_win == Mean(wins)
        avg_loss == Frac(Abs(Sum(losses)), Len(losses))
        risk_reward == IF FGt(avg_loss, Num(0))
                           THEN Frac(avg_win[1] * avg_loss[2], avg_win[2] * avg_loss[1])
                           ELSE Num(0)
        ev2 == IF both /\ FGt(risk_reward, Num(2))
                   THEN Append(from_orders.ev,
                               Ev("High risk-reward ratio: {:.2f}", <<risk_reward>>))
               ELSE IF both /\ FLt(risk_reward, Frac(5, 10))
                   THEN Append(from_orders.ev,
                               Ev("Low risk-reward ratio: {:.2f} (potential martingale)",
                                  <<risk_reward>>))
               ELSE from_orders.ev
        keys == (IF IsEmpty(orders) THEN {}
                 ELSE {"stop_loss_usage_pct", "take_profit_usage_pct"})
                \cup (IF both THEN {"average_win", "average_loss", "risk_reward_ratio"}
                      ELSE {})
    IN  TradePattern(from_orders.name, from_orders.conf,
            "Risk management strategy analysis",
            ev2,
            [k \in keys |-> IF k = "stop_loss_usage_pct" THEN sl_usage
                            ELSE IF k = "take_profit_usage_pct" THEN tp_usage
                            ELSE IF k = "average_win" THEN avg_win
                            ELSE IF k = "average_loss" THEN avg_loss
                            ELSE risk_reward])

\* the detector with the `if deals_df.empty: return None` of line 368 left out
DetectRiskManagementPattern_NoGuard(df, orders) == RiskManagementAnalysis(df, orders)

DetectRiskManagementPattern(df, orders) ==
    IF IsEmpty(df) THEN None ELSE RiskManagementAnalysis(df, orders)

-----------------------------------------------------------------------------
(* MT5TradeMonitor.detect_trading_frequency_pattern *)

\* deals_df.groupby('date').size(): the number of deals of each date that has
\* deals, by rising date
TradesPerDay(df) ==
    LET dates == [i \in DOMAIN df |-> Date(df[i].time)]
        days == SortInts(Unique(dates))
    IN  [k \in DOMAIN days |-> Cardinality({i \in DOMAIN dates : dates[i] = days[k]})]

\* lines 467-472 with the bonus added to a confidence that is not capped
ConsistencyBonus_Half(confidence, consistent) ==
    IF consistent THEN FAdd(confidence, Frac(5, 10)) ELSE confidence

\* lines 467-472: confidence += 0.05 on a consistent daily frequency
ConsistencyBonus(confidence, consistent) ==
    IF consistent THEN FAdd(confidence, Frac(5, 100)) ELSE confidence

\* a frequency detector that recognises nothing
DetectTradingFrequencyPattern_Absent(df) == None

DetectTradingFrequencyPattern(df) ==
    IF IsEmpty(df) THEN None
    ELSE
    LET trades_per_day == TradesPerDay(df)
        avg_trades_per_day == Mean(trades_per_day)
        var_trades_per_day == SampleVariance(trades_per_day)
        class == IF FGt(avg_trades_per_day, Num(50)) THEN
                     [name |-> "High-Frequency Trading (HFT)", conf |-> Frac(85, 100)]
                 ELSE IF FGt(avg_trades_per_day, Num(20)) THEN
                     [name |-> "Scalping Strategy", conf |-> Frac(8, 10)]
                 ELSE IF FGt(avg_trades_per_day, Num(5)) THEN
                     [name |-> "Day Trading Strategy", conf |-> Frac(75, 100)]
                 ELSE IF FGt(avg_trades_per_day, Num(1)) THEN
                     [name |-> "Swing Trading Strategy", conf |-> Frac(7, 10)]
                 ELSE
                     [name |-> "Position Trading Strategy", conf |-> Frac(7, 10)]
        consistent == StdLt(var_trades_per_day, FMul(avg_trades_per_day, Frac(3, 10)))
    IN  TradePattern(class.name,
            ConsistencyBonus(class.conf, consistent),
            "Trading frequency analysis",
            <<Ev("Average {:.1f} trades per day", <<avg_trades_per_day>>),
              IF consistent THEN Ev("Consistent daily trading frequency", <<>>)
                            ELSE Ev("Variable daily trading frequency", <<>>)>>,
            \* std_trades_per_day is held by its square
            [k \in {"avg_trades_per_day", "std_trades_per_day"} |->
                IF k = "avg_trades_per_day" THEN avg_trades_per_day
                ELSE var_trades_per_day])

-----------------------------------------------------------------------------
(* MT5TradeMonitor.detect_symbol_pattern *)

DetectSymbolPattern(df) ==
    IF IsEmpty(df) THEN None
    ELSE
    LET symbol_counts == ValueCounts(Column(df, "symbol"))
        total_symbols == Len(symbol_counts)
        top_symbol == symbol_counts[1][1]
        top_symbol_pct == Pct(symbol_counts[1][2], Len(df))
        class == IF total_symbols = 1 THEN
                     [name |-> "Single Instrument Specialist", conf |-> Frac(95, 100),
                      ev |-> <<Ev("Only trades {}", <<top_symbol>>)>>]
                 ELSE IF FGt(top_symbol_pct, Num(70)) THEN
                     [name |-> "Focused Instrument Strategy", conf |-> Frac(85, 100),
                      ev |-> <<Ev("{:.1f}% concentration on {}",
                                  <<top_symbol_pct, top_symbol>>)>>]
                 ELSE IF total_symbols <= 5 THEN
                     [name |-> "Multi-Instrument Strategy", conf |-> Frac(75, 100),
                      ev |-> <<Ev("Trades {} different instruments", <<total_symbols>>)>>]
                 ELSE
                     [name |-> "Diversified Portfolio Strategy", conf |-> Frac(7, 10),
                      ev |-> <<Ev("Trades {} different instruments", <<total_symbols>>)>>]
    IN  TradePattern(class.name, class.conf, "Instrument selection analysis", class.ev,
            [total_symbols_traded |-> total_symbols, top_symbol |-> top_symbol,
             top_symbol_concentration |-> top_symbol_pct])

-----------------------------------------------------------------------------
(* MT5TradeMonitor.calculate_trade_statistics *)

\* Series.mode().values[0]: the most frequent value, the smallest on a tie
\* the most frequent value met first in the column
Mode_FirstEncountered(xs) ==
    LET count(v) == Cardinality({i \in DOMAIN xs : xs[i] = v})
    IN  xs[Min({i \in DOMAIN xs : \A w \in Range(xs) : count(w) <= count(xs[i])})]

Mode(xs) ==
    LET count(v) == Cardinality({i \in DOMAIN xs : xs[i] = v})
    IN  Min({v \in Range(xs) : \A w \in Range(xs) : count(w) <= count(v)})

\* the quotient whatever the gross loss
ProfitFactor_Divide(gross_profit, gross_loss) == Frac(gross_profit, gross_loss)

\* lines 210-213
ProfitFactor(gross_profit, gross_loss) ==
    IF gross_loss > 0 THEN Frac(gross_profit, gross_loss)
    ELSE IF gross_profit > 0 THEN Inf ELSE Num(0)

StatKeys ==
    {"total_trades", "winning_trades", "losing_trades", "break_even_trades",
     "total_profit", "average_profit", "max_profit", "max_loss", "average_volume",
     "total_volume", "win_rate", "profit_factor", "most_active_hour",
     "most_active_day", "avg_time_between_trades_minutes",
     "median_time_between_trades_minutes"}

CalculateTradeStatistics(df) ==
    LET trade_deals == Filter(df, [i \in DOMAIN df |-> df[i].type \in {0, 1}])
    IN  IF IsEmpty(df) \/ IsEmpty(trade_deals) THEN [k \in {} |-> 0]
        ELSE
        LET profit == Column(trade_deals, "profit")
            volume == Column(trade_deals, "volume")
            times == Column(trade_deals, "time")
            total_trades == Len(trade_deals)
            winning_trades == Cardinality({i \in DOMAIN profit : profit[i] > 0})
            gross_profit == Sum([i \in DOMAIN profit |->
                                    IF profit[i] > 0 THEN profit[i] ELSE 0])
            gross_loss == Abs(Sum([i \in DOMAIN profit |->
                                      IF profit[i] < 0 THEN profit[i] ELSE 0]))
            time_diffs == Diffs(SortInts(times))
            value(k) ==
                CASE k = "total_trades" -> Num(total_trades)
                  [] k = "winning_trades" -> Num(winning_trades)
                  [] k = "losing_trades" ->
                         Num(Cardinality({i \in DOMAIN profit : profit[i] < 0}))
                  [] k = "break_even_trades" ->
                         Num(Cardinality({i \in DOMAIN profit : profit[i] = 0}))
                  [] k = "total_profit" -> Num(Sum(profit))
                  [] k = "average_profit" -> Mean(profit)
                  [] k = "max_profit" -> Num(Max(Range(profit)))
                  [] k = "max_loss" -> Num(Min(Range(profit)))
                  [] k = "average_volume" -> Mean(volume)
                  [] k = "total_volume" -> Num(Sum(volume))
                  [] k = "win_rate" -> Frac(winning_trades * 100, total_trades)
                  [] k = "profit_factor" -> ProfitFactor(gross_profit, gross_loss)
                  [] k = "most_active_hour" ->
                         Num(Mode([i \in DOMAIN times |-> Hour(times[i])]))
                  [] k = "most_active_day" ->
                         Num(Mode([i \in DOMAIN times |-> DayOfWeek(times[i])]))
                  [] k = "avg_time_between_trades_minutes" ->
                         FMul(Mean(time_diffs), Frac(1, 2))
                  [] OTHER -> FMul(Median(time_diffs), Frac(1, 2))
        IN  [k \in StatKeys |-> value(k)]

-----------------------------------------------------------------------------
(* MT5TradeMonitor.identify_algorithm_type *)

\* a result the detector could not name counted as no result
IsNone_Unrecognised(p) ==
    p.pattern_name \in {"None", "Unknown", "Unknown Risk Management"}

IsNone(p) == p.pattern_name = "None"

\* line 539 leaving the list as it is
FilterNone_Keep(pats) == pats

\* patterns = [p for p in patterns if p is not None]
FilterNone(pats) == Filter(pats, [i \in DOMAIN pats |-> ~IsNone(pats[i])])

RECURSIVE SumConfidence(_, _)
SumConfidence(pats, n) ==
    IF n = 0 THEN Num(0) ELSE FAdd(SumConfidence(pats, n - 1), pats[n].confidence)

\* lines 548-551 with the sum left undivided
AverageConfidence_Sum(pats) ==
    IF Len(pats) > 0 THEN SumConfidence(pats, Len(pats)) ELSE Num(0)

\* lines 548-551: sum(p.confidence for p in patterns) / len(patterns), or 0.0
AverageConfidence(pats) ==
    IF Len(pats) > 0
        THEN FMul(SumConfidence(pats, Len(pats)), Frac(1, Len(pats)))
        ELSE Num(0)

\* (deals_df['time'].max() - deals_df['time'].min()).days if not deals_df.empty else 0
AnalysisPeriodDays(df) ==
    IF ~IsEmpty(df)
        THEN Days(Max(Range(Column(df, "time"))) - Min(Range(Column(df, "time"))))
        ELSE 0

\* lines 529-536: the five detectors' results in call order
DetectAllPatterns(df, orders) ==
    <<DetectPositionSizingPattern(df),
      DetectTimeBasedPatterns(df),
      DetectRiskManagementPattern(df, orders),
      DetectTradingFrequencyPattern(df),
      DetectSymbolPattern(df)>>

-----------------------------------------------------------------------------
(* AdvancedAnalytics: the detectors' result dictionaries are functions from  *)
(* key to value                                                              *)

\* {flag: False, 'confidence': 0.0}, the early return on an empty table
Absent(flag) == [k \in {flag, "confidence"} |-> IF k = flag THEN FALSE ELSE Num(0)]

\* min(ratio * scale, cap) without the cap
RatioConfidence_Uncapped(ratio, scale, cap) == FMul(ratio, scale)

\* min(ratio * scale, cap)
RatioConfidence(ratio, scale, cap) == FMin(FMul(ratio, scale), cap)

\* ---- detect_grid_trading
\* the symbol's pending limit orders (types 2 and 3)
PendingOrders(orders, symbol) ==
    Filter(orders, [i \in DOMAIN orders |->
                       orders[i].symbol = symbol /\ orders[i].type \in {2, 3}])

\* np.diff(sorted(prices))
GridSpacing(orders, symbol) ==
    Diffs(SortInts(Column(PendingOrders(orders, symbol), "price_open")))

\* the loop body's test without the `len(symbol_orders) < 5: continue`
IsGridSymbol_NoMinimum(orders, symbol) ==
    LET price_diffs == GridSpacing(orders, symbol)
    IN  /\ Len(PendingOrders(orders, symbol)) >= 3
        /\ Len(price_diffs) > 0
        /\ StdLt(PopVariance(price_diffs), FMul(Mean(price_diffs), Frac(3, 10)))

\* the loop body's test for one symbol (lines 38-55)
IsGridSymbol(orders, symbol) ==
    LET symbol_orders == Filter(orders, [i \in DOMAIN orders |-> orders[i].symbol = symbol])
        price_diffs == GridSpacing(orders, symbol)
    IN  /\ Len(symbol_orders) >= 5
        /\ Len(PendingOrders(orders, symbol)) >= 3
        /\ Len(price_diffs) > 0
        /\ StdLt(PopVariance(price_diffs), FMul(Mean(price_diffs), Frac(3, 10)))

DetectGridTrading(df, orders) ==
    IF IsEmpty(df) \/ IsEmpty(orders) THEN Absent("is_grid")
    ELSE
    LET symbols == Unique(Column(df, "symbol"))
        grids == Filter(symbols, [i \in DOMAIN symbols |-> IsGridSymbol(orders, symbols[i])])
        keys == {"is_grid", "confidence", "evidence"}
                    \cup (IF Len(grids) > 0 THEN {"grid_spacing"} ELSE {})
    IN  [k \in keys |->
            IF k = "is_grid" THEN Len(grids) > 0
            ELSE IF k = "confidence" THEN (IF Len(grids) > 0 THEN Frac(8, 10) ELSE Num(0))
            ELSE IF k = "evidence" THEN
                [i \in DOMAIN grids |->
                    Ev("Regular price intervals detected for {} (avg: {:.5f})",
                       <<grids[i], Mean(GridSpacing(orders, grids[i]))>>)]
            ELSE Mean(GridSpacing(orders, grids[Len(grids)]))]

\* ---- detect_news_trading
\* a single short gap after the long one is enough
Clusters_OneShort(df) ==
    LET d == Diffs(SortInts(Column(df, "time")))
        n == Len(df)
        last(i) == IF i + 3 < n - 1 THEN i + 3 ELSE n - 1
    IN  Cardinality({i \in 1..(n - 3) :
            /\ d[i] > 60 * 2
            /\ Cardinality({j \in (i + 1)..last(i) : d[j] < 5 * 2}) >= 1})

\* threshold_long = 60 minutes, threshold_short = 5 minutes, gaps in ticks
Clusters(df) ==
    LET d == Diffs(SortInts(Column(df, "time")))
        n == Len(df)
        last(i) == IF i + 3 < n - 1 THEN i + 3 ELSE n - 1
    IN  Cardinality({i \in 1..(n - 3) :
            /\ d[i] > 60 * 2
            /\ Cardinality({j \in (i + 1)..last(i) : d[j] < 5 * 2}) >= 2})

DetectNewsTrading(df) ==
    IF IsEmpty(df) THEN Absent("is_news_trading")
    ELSE
    LET clusters == Clusters(df)
        cluster_ratio == Frac(clusters, Len(df))
        is_news == FGt(cluster_ratio, Frac(1, 10))
        keys == {"is_news_trading", "confidence", "clusters_detected", "cluster_ratio"}
                    \cup (IF is_news THEN {"evidence"} ELSE {})
    IN  [k \in keys |->
            IF k = "is_news_trading" THEN is_news
            ELSE IF k = "confidence" THEN RatioConfidence(cluster_ratio, Num(5), Frac(9, 10))
            ELSE IF k = "clusters_detected" THEN clusters
            ELSE IF k = "cluster_ratio" THEN cluster_ratio
            ELSE <<Ev("Detected {} trading clusters", <<clusters>>),
                   Ev("Trading pattern suggests reaction to external events", <<>>)>>]

\* ---- detect_correlation_trading
\* Timestamp.floor('1min')
FloorMinute(t) == t - (t % 2)

DetectCorrelationTrading(df) ==
    IF IsEmpty(df) THEN Absent("is_correlation_trading")
    ELSE
    LET rounded == [i \in DOMAIN df |-> FloorMinute(df[i].time)]
        time_points == Range(rounded)
        total_time_points == Cardinality(time_points)
        simultaneous_multi_symbol ==
            Cardinality({t \in time_points :
                Cardinality({df[i].symbol : i \in {j \in DOMAIN df : rounded[j] = t}}) > 1})
        ratio == IF total_time_points > 0
                     THEN Frac(simultaneous_multi_symbol, total_time_points) ELSE Num(0)
        is_corr == FGt(ratio, Frac(3, 10))
        keys == {"is_correlation_trading", "confidence", "simultaneous_ratio",
                 "simultaneous_count"} \cup (IF is_corr THEN {"evidence"} ELSE {})
    IN  [k \in keys |->
            IF k = "is_correlation_trading" THEN is_corr
            ELSE IF k = "confidence" THEN RatioConfidence(ratio, Num(2), Frac(85, 100))
            ELSE IF k = "simultaneous_ratio" THEN ratio
            ELSE IF k = "simultaneous_count" THEN simultaneous_multi_symbol
            ELSE <<Ev("Trades multiple symbols simultaneously in {} instances",
                      <<simultaneous_multi_symbol>>),
                   Ev("Suggests correlation-based or basket trading strategy", <<>>)>>]

\* ---- detect_hedging_strategy
SymbolDeals(df, symbol) == Filter(df, [i \in DOMAIN df |-> df[i].symbol = symbol])

\* the adjacent pairs of one symbol's deals: <<opportunities, instances>>
HedgingOfSymbol(symbol_deals) ==
    IF Len(symbol_deals) < 2 THEN <<0, 0>>
    ELSE <<Len(symbol_deals) - 1,
           Cardinality({i \in 1..(Len(symbol_deals) - 1) :
               /\ symbol_deals[i + 1].time - symbol_deals[i].time < 10 * 2
               /\ symbol_deals[i].type # symbol_deals[i + 1].type})>>

DetectHedgingStrategy(df) ==
    IF IsEmpty(df) THEN Absent("is_hedging")
    ELSE
    LET sorted == SortByTime(df)
        symbols == Unique(Column(sorted, "symbol"))
        per == [i \in DOMAIN symbols |-> HedgingOfSymbol(SymbolDeals(sorted, symbols[i]))]
        total_opportunities == Sum([i \in DOMAIN per |-> per[i][1]])
        hedging_instances == Sum([i \in DOMAIN per |-> per[i][2]])
        hedging_ratio == IF total_opportunities > 0
                             THEN Frac(hedging_instances, total_opportunities) ELSE Num(0)
        is_hedging == FGt(hedging_ratio, Frac(3, 10))
        keys == {"is_hedging", "confidence", "hedging_ratio", "hedging_instances"}
                    \cup (IF is_hedging THEN {"evidence"} ELSE {})
    IN  [k \in keys |->
            IF k = "is_hedging" THEN is_hedging
            ELSE IF k = "confidence" THEN RatioConfidence(hedging_ratio, Num(2), Frac(85, 100))
            ELSE IF k = "hedging_ratio" THEN hedging_ratio
            ELSE IF k = "hedging_instances" THEN hedging_instances
            ELSE <<Ev("Detected {} potential hedging instances", <<hedging_instances>>),
                   Ev("Algorithm appears to use opposite positions for risk management",
                      <<>>)>>]

\* ---- detect_scaling_in_out
\* one count for each maximal run of equal types
ScalingOfSymbol_Runs(symbol_deals) ==
    IF Len(symbol_deals) < 3 THEN 0
    ELSE Cardinality({i \in 2..Len(symbol_deals) :
                         /\ symbol_deals[i].type = symbol_deals[i - 1].type
                         /\ (i = 2 \/ symbol_deals[i - 2].type # symbol_deals[i - 1].type)})

\* lines 353-363: every deal whose type equals the previous deal's type counts
ScalingOfSymbol(symbol_deals) ==
    IF Len(symbol_deals) < 3 THEN 0
    ELSE Cardinality({i \in 2..Len(symbol_deals) :
                         symbol_deals[i].type = symbol_deals[i - 1].type})

DetectScalingInOut(df) ==
    IF IsEmpty(df) THEN Absent("is_scaling")
    ELSE
    LET sorted == SortByTime(df)
        symbols == Unique(Column(sorted, "symbol"))
        scaling_instances ==
            Sum([i \in DOMAIN symbols |-> ScalingOfSymbol(SymbolDeals(sorted, symbols[i]))])
        keys == {"is_scaling", "confidence", "scaling_instances"}
                    \cup (IF scaling_instances > 0 THEN {"evidence"} ELSE {})
    IN  [k \in keys |->
            IF k = "is_scaling" THEN scaling_instances > 0
            ELSE IF k = "confidence"
                THEN RatioConfidence(Num(scaling_instances), Frac(2, 10), Frac(85, 100))
            ELSE IF k = "scaling_instances" THEN scaling_instances
            ELSE <<Ev("Detected {} instances of position scaling", <<scaling_instances>>),
                   Ev("Algorithm adds to winning/losing positions", <<>>)>>]

\* ---- analyze_entry_precision (prices in points, 1 point = 0.00001)
RECURSIVE TrailingZeros(_)
TrailingZeros(p) == IF p % 10 = 0 THEN 1 + TrailingZeros(p \div 10) ELSE 0

\* len(f"{price:.10f}".rstrip('0').split('.')[1])
DecimalPlaces(price) ==
    IF price % 100000 = 0 THEN 0 ELSE 5 - TrailingZeros(price % 100000)

\* int((price * 100) % 10)
SecondDecimalDigit(price) == (price \div 1000) % 10

AnalyzeEntryPrecision(df) ==
    IF IsEmpty(df) THEN [k \in {} |-> 0]
    ELSE
    LET prices == Column(df, "price")
        decimal_places == [i \in DOMAIN prices |-> DecimalPlaces(prices[i])]
        most_common == ValueCounts(decimal_places)[1]
        precision_ratio == Frac(most_common[2], Len(decimal_places))
        round_prices == Cardinality({i \in DOMAIN prices :
                                       SecondDecimalDigit(prices[i]) \in {0, 5}})
        round_ratio == Frac(round_prices, Len(prices))
        round == FGt(round_ratio, Frac(5, 10))
        precise == FGt(precision_ratio, Frac(8, 10))
        keys == {"most_common_decimal_places", "precision_consistency",
                 "is_algorithmic_precision", "round_number_ratio"}
                    \cup (IF round \/ precise THEN {"evidence"} ELSE {})
    IN  [k \in keys |->
            IF k = "most_common_decimal_places" THEN most_common[1]
            ELSE IF k = "precision_consistency" THEN precision_ratio
            ELSE IF k = "is_algorithmic_precision" THEN FGt(precision_ratio, Frac(7, 10))
            ELSE IF k = "round_number_ratio" THEN round_ratio
            ELSE IF round
                THEN <<Ev("High percentage of round-number entries suggests psychological levels or manual trading", <<>>)>>
                ELSE <<Ev("Consistent decimal precision suggests algorithmic entry", <<>>)>>]

\* ---- calculate_maximum_drawdown
\* the rows as they are given
DrawdownOrder_AsGiven(df) == df

\* sort_values('time') of the copy
DrawdownOrder(df) == SortByTime(df)

\* Series.cumsum() and Series.cummax()
CumSum(xs) == [i \in DOMAIN xs |-> SumTo(xs, i)]
CumMax(xs) == [i \in DOMAIN xs |-> Max({xs[j] : j \in 1..i})]

\* Series.idxmax(): the first position of the largest value
IdxMax(xs) == Min({i \in DOMAIN xs : xs[i] = Max(Range(xs))})

CalculateMaximumDrawdown(df) ==
    IF IsEmpty(df)
        THEN [k \in {"max_drawdown", "max_drawdown_pct"} |-> Num(0)]
    ELSE
    LET sorted == DrawdownOrder(df)
        cumulative_profit == CumSum(Column(sorted, "profit"))
        running_max == CumMax(cumulative_profit)
        drawdown == [i \in DOMAIN sorted |-> running_max[i] - cumulative_profit[i]]
        max_drawdown == Max(Range(drawdown))
        max_profit == Max(Range(running_max))
        max_dd_idx == IdxMax(drawdown)
        dd_start_idx == IdxMax(SubSeq(running_max, 1, max_dd_idx))
        dd_start == sorted[dd_start_idx].time
        dd_end == sorted[max_dd_idx].time
    IN  [k \in {"max_drawdown", "max_drawdown_pct", "drawdown_duration_days",
                "drawdown_start", "drawdown_end"} |->
            IF k = "max_drawdown" THEN Num(max_drawdown)
            ELSE IF k = "max_drawdown_pct"
                THEN IF max_profit > 0 THEN Frac(max_drawdown * 100, max_profit) ELSE Num(0)
            ELSE IF k = "drawdown_duration_days" THEN Days(dd_end - dd_start)
            ELSE IF k = "drawdown_start" THEN dd_start
            ELSE dd_end]

\* ---- analyze_trade_duration
AnalyzeTradeDuration(df) ==
    IF IsEmpty(df) THEN [k \in {} |-> 0]
    ELSE
    LET sorted == SortByTime(df)
        ids == Unique(Column(sorted, "position_id"))
        times(id) == {sorted[i].time : i \in {j \in DOMAIN sorted : sorted[j].position_id = id}}
        count(id) == Cardinality({j \in DOMAIN sorted : sorted[j].position_id = id})
        closed == Filter(ids, [i \in DOMAIN ids |-> count(ids[i]) >= 2])
        \* in ticks; the report's minutes are two ticks each
        position_durations == [i \in DOMAIN closed |-> Max(times(closed[i])) - Min(times(closed[i]))]
    IN  IF Len(position_durations) > 0 THEN
            [k \in {"avg_duration_minutes", "median_duration_minutes",
                    "min_duration_minutes", "max_duration_minutes",
                    "std_duration_minutes"} |->
                IF k = "avg_duration_minutes" THEN FMul(Mean(position_durations), Frac(1, 2))
                ELSE IF k = "median_duration_minutes"
                    THEN FMul(Median(position_durations), Frac(1, 2))
                ELSE IF k = "min_duration_minutes"
                    THEN Minutes(Min(Range(position_durations)))
                ELSE IF k = "max_duration_minutes"
                    THEN Minutes(Max(Range(position_durations)))
                \* the standard deviation is held by its square
                ELSE FMul(PopVariance(position_durations), Frac(1, 4))]
        ELSE [k \in {"note"} |-> "Unable to calculate duration without position_id"]

-----------------------------------------------------------------------------
(* The connection and the fetch operations of MT5TradeMonitor.  A call of    *)
(* the MetaTrader5 package returns None without a terminal connection and a  *)
(* tuple of records otherwise.                                               *)

NoLog == [level |-> "NONE", message |-> ""]
Log(level, template, args) == [level |-> level, message |-> Ev(template, args)]

\* a freshly constructed monitor (__init__), no terminal attached
Offline ==
    /\ connected = FALSE
    /\ history_deals = <<>>
    /\ history_orders = <<>>
    /\ now = 0
    /\ last_deal_time = 0
    /\ callbacks = 0
    /\ fetch_log = NoLog

MT5None == [none |-> TRUE, records |-> <<>>]

\* mt5.history_deals_get(from_date, to_date) on the deals' time and
\* mt5.history_orders_get(from_date, to_date) on the orders' time_setup
HistoryGet(conn, held, key, from_date, to_date) ==
    IF ~conn THEN MT5None
    ELSE [none |-> FALSE,
          records |-> Filter(held, [i \in DOMAIN held |->
                                      from_date <= held[i][key] /\ held[i][key] <= to_date])]

\* pd.DataFrame()
EmptyFrame == <<>>

\* timedelta(days=days_back)
DaysBack(days_back) == days_back * 2880

\* get_historical_deals: the frame returned and the message logged
GetHistoricalDeals(conn, held, clock, days_back) ==
    IF ~conn
        THEN [frame |-> EmptyFrame, log |-> Log("ERROR", "Not connected to MT5", <<>>)]
    ELSE
    LET deals == HistoryGet(conn, held, "time", clock - DaysBack(days_back), clock)
    IN  IF deals.none \/ Len(deals.records) = 0
            THEN [frame |-> EmptyFrame,
                  log |-> Log("WARNING", "No deals found in the specified period", <<>>)]
            ELSE [frame |-> deals.records,
                  log |-> Log("INFO", "Retrieved {} deals from last {} days",
                              <<Len(deals.records), days_back>>)]

\* get_historical_orders
GetHistoricalOrders(conn, held, clock, days_back) ==
    IF ~conn
        THEN [frame |-> EmptyFrame, log |-> Log("ERROR", "Not connected to MT5", <<>>)]
    ELSE
    LET orders == HistoryGet(conn, held, "time_setup", clock - DaysBack(days_back), clock)
    IN  IF orders.none \/ Len(orders.records) = 0
            THEN [frame |-> EmptyFrame,
                  log |-> Log("WARNING", "No orders found in the specified period", <<>>)]
            ELSE [frame |-> orders.records,
                  log |-> Log("INFO", "Retrieved {} orders from last {} days",
                              <<Len(orders.records), days_back>>)]

-----------------------------------------------------------------------------
(* MT5TradeMonitor._determine_algorithm_type *)

PatternNames(pats) == [i \in 1..Len(pats) |-> pats[i].pattern_name]

\* mt5_monitor.py 597-604 with the thresholds off by the boundary
StatsFallback_Inclusive(st) ==
    IF FLe(Get(st, "win_rate", Num(0)), Num(40))
           /\ FGe(Get(st, "profit_factor", Num(0)), Frac(15, 10))
        THEN "High Risk-Reward Trend Following EA"
    ELSE IF FGe(Get(st, "win_rate", Num(0)), Num(70))
           /\ FLe(Get(st, "profit_factor", Num(0)), Num(2))
        THEN "High Win-Rate Mean Reversion EA"
    ELSE "Custom/Hybrid Trading Algorithm"

\* "Check for specific characteristics": the statistics rules that end the cascade
StatsFallback(st) ==
    IF FLt(Get(st, "win_rate", Num(0)), Num(40))
           /\ FGt(Get(st, "profit_factor", Num(0)), Frac(15, 10))
        THEN "High Risk-Reward Trend Following EA"
    ELSE IF FGt(Get(st, "win_rate", Num(0)), Num(70))
           /\ FLt(Get(st, "profit_factor", Num(0)), Num(2))
        THEN "High Win-Rate Mean Reversion EA"
    ELSE "Custom/Hybrid Trading Algorithm"

\* the cascade with the rules tried in the opposite order
DetermineAlgorithmType_Reversed(pats, st) ==
    LET pattern_names == PatternNames(pats)
    IN  IF InList("Position Trading Strategy", pattern_names)
            THEN "Long-Term Position Trading EA"
        ELSE IF InList("Swing Trading Strategy", pattern_names)
            THEN "Swing Trading Algorithm"
        ELSE IF InList("Day Trading Strategy", pattern_names)
            THEN IF InList("Strict Risk Management (SL + TP)", pattern_names)
                     THEN "Professional Day Trading EA"
                     ELSE "Day Trading Bot"
        ELSE IF InList("Martingale/Anti-Martingale", pattern_names)
            THEN IF Contains("Grid", PyStrList(pattern_names))
                     THEN "Grid Martingale EA"
                     ELSE "Martingale-Based EA"
        ELSE IF InList("Scalping Strategy", pattern_names)
            THEN IF InList("Time-Scheduled Trading", pattern_names)
                     THEN "Scheduled Scalping EA"
                     ELSE "Scalping Bot/EA"
        ELSE IF InList("High-Frequency Trading (HFT)", pattern_names)
            THEN "High-Frequency Trading Bot"
        ELSE StatsFallback(st)

DetermineAlgorithmType(pats, st) ==
    LET pattern_names == PatternNames(pats)
    IN  IF InList("High-Frequency Trading (HFT)", pattern_names)
            THEN "High-Frequency Trading Bot"
        ELSE IF InList("Scalping Strategy", pattern_names)
            THEN IF InList("Time-Scheduled Trading", pattern_names)
                     THEN "Scheduled Scalping EA"
                     ELSE "Scalping Bot/EA"
        ELSE IF InList("Martingale/Anti-Martingale", pattern_names)
            THEN IF Contains("Grid", PyStrList(pattern_names))
                     THEN "Grid Martingale EA"
                     ELSE "Martingale-Based EA"
        ELSE IF InList("Day Trading Strategy", pattern_names)
            THEN IF InList("Strict Risk Management (SL + TP)", pattern_names)
                     THEN "Professional Day Trading EA"
                     ELSE "Day Trading Bot"
        ELSE IF InList("Swing Trading Strategy", pattern_names)
            THEN "Swing Trading Algorithm"
        ELSE IF InList("Position Trading Strategy", pattern_names)
            THEN "Long-Term Position Trading EA"
        ELSE StatsFallback(st)

-----------------------------------------------------------------------------
(* The resolver on its own: _determine_algorithm_type applied to bounded    *)
(* pattern lists and statistics dictionaries.                               *)

\* pattern names the resolver reads, one name it ignores, and one name
\* holding the substring "Grid"
ResolverNames ==
    {"High-Frequency Trading (HFT)", "Scalping Strategy", "Day Trading Strategy",
     "Swing Trading Strategy", "Position Trading Strategy",
     "Martingale/Anti-Martingale", "Time-Scheduled Trading",
     "Strict Risk Management (SL + TP)", "Fixed Lot Size", "Grid Trading"}

ResolverPatterns ==
    UNION {[1..n -> {TradePattern(nm, Frac(1, 2), "", <<>>, <<>>) : nm \in ResolverNames}]
           : n \in 0..MaxPatternNames}

WinRates == {Num(0), Num(39), Num(40), Num(70), Num(71)}
ProfitFactors == {Num(0), Frac(15, 10), Frac(16, 10), Num(2), Inf}

\* statistics dictionaries with win_rate and profit_factor each present or not
ResolverStats ==
    {[k \in keys |-> IF k = "win_rate" THEN w ELSE f] :
        keys \in SUBSET {"win_rate", "profit_factor"}, w \in WinRates, f \in ProfitFactors}

InitResolver ==
    /\ deals_df = <<>>
    /\ orders_df = <<>>
    /\ pc = "resolver"
    /\ patterns \in ResolverPatterns
    /\ stats \in ResolverStats
    /\ likely_algorithm = "None"
    /\ signature = NoSignature
    /\ analytics = [k \in {} |-> 0]
    /\ rerun = NoSignature
    /\ Offline

Resolve ==
    /\ pc = "resolver"
    /\ likely_algorithm' = DetermineAlgorithmType(patterns, stats)
    /\ pc' = "resolved"
    /\ UNCHANGED <<deals_df, orders_df, patterns, stats, signature, analytics, rerun,
                   live>>

NextResolver == Resolve

SpecResolver == InitResolver /\ [][NextResolver]_vars

-----------------------------------------------------------------------------
(* Claims about the resolver (checked under SpecResolver) *)

Has(name) == \E i \in 1..Len(patterns) : patterns[i].pattern_name = name

\* C1: whenever the pattern list holds the name "High-Frequency Trading (HFT)",
\* the label is "High-Frequency Trading Bot", whatever else is present.
C1_HFTWins ==
    (pc = "resolved" /\ Has("High-Frequency Trading (HFT)"))
        => likely_algorithm = "High-Frequency Trading Bot"

C1_Witness ==
    /\ pc = "resolved"
    /\ Has("High-Frequency Trading (HFT)")
    /\ Has("Day Trading Strategy")
    /\ Has("Martingale/Anti-Martingale")
    /\ likely_algorithm = "High-Frequency Trading Bot"

\* C2: without the HFT name but with "Scalping Strategy", the label is
\* "Scheduled Scalping EA" if "Time-Scheduled Trading" is present and
\* "Scalping Bot/EA" otherwise, whatever other names are present.
C2_ScalpingRule ==
    (pc = "resolved" /\ ~Has("High-Frequency Trading (HFT)") /\ Has("Scalping Strategy"))
        => likely_algorithm = IF Has("Time-Scheduled Trading")
                                  THEN "Scheduled Scalping EA"
                                  ELSE "Scalping Bot/EA"

C2_Witness ==
    /\ pc = "resolved"
    /\ Has("Scalping Strategy")
    /\ Has("Time-Scheduled Trading")
    /\ Has("Martingale/Anti-Martingale")
    /\ likely_algorithm = "Scheduled Scalping EA"

\* C3: without the HFT and Scalping names but with "Martingale/Anti-Martingale",
\* the label is "Grid Martingale EA" if some pattern name contains "Grid" and
\* "Martingale-Based EA" otherwise, ahead of the Day/Swing/Position rules.
C3_MartingaleRule ==
    (pc = "resolved" /\ ~Has("High-Frequency Trading (HFT)") /\ ~Has("Scalping Strategy")
        /\ Has("Martingale/Anti-Martingale"))
        => likely_algorithm =
               IF \E i \in 1..Len(patterns) : Contains("Grid", patterns[i].pattern_name)
                   THEN "Grid Martingale EA"
                   ELSE "Martingale-Based EA"

C3_Witness ==
    /\ pc = "resolved"
    /\ Has("Martingale/Anti-Martingale")
    /\ Has("Grid Trading")
    /\ Has("Day Trading Strategy")
    /\ likely_algorithm = "Grid Martingale EA"

Labels ==
    {"High-Frequency Trading Bot", "Scheduled Scalping EA", "Scalping Bot/EA",
     "Grid Martingale EA", "Martingale-Based EA", "Professional Day Trading EA",
     "Day Trading Bot", "Swing Trading Algorithm", "Long-Term Position Trading EA",
     "High Risk-Reward Trend Following EA", "High Win-Rate Mean Reversion EA",
     "Custom/Hybrid Trading Algorithm"}

NoFastOrMartingale ==
    /\ ~Has("High-Frequency Trading (HFT)")
    /\ ~Has("Scalping Strategy")
    /\ ~Has("Martingale/Anti-Martingale")

\* C4: first match wins: with no HFT, Scalping or Martingale name, Day Trading
\* gives "Professional Day Trading EA" with the strict SL+TP pattern and
\* "Day Trading Bot" without; failing that Swing gives "Swing Trading
\* Algorithm"; failing that Position gives "Long-Term Position Trading EA";
\* every input gets one label of the resolver's twelve.
C4_OrderedCascade ==
    pc = "resolved" =>
        /\ likely_algorithm \in Labels
        /\ (NoFastOrMartingale /\ Has("Day Trading Strategy")) =>
               likely_algorithm = IF Has("Strict Risk Management (SL + TP)")
                                      THEN "Professional Day Trading EA"
                                      ELSE "Day Trading Bot"
        /\ (NoFastOrMartingale /\ ~Has("Day Trading Strategy")
               /\ Has("Swing Trading Strategy")) =>
               likely_algorithm = "Swing Trading Algorithm"
        /\ (NoFastOrMartingale /\ ~Has("Day Trading Strategy")
               /\ ~Has("Swing Trading Strategy") /\ Has("Position Trading Strategy")) =>
               likely_algorithm = "Long-Term Position Trading EA"

C4_Witness ==
    /\ pc = "resolved"
    /\ Has("Day Trading Strategy")
    /\ Has("Strict Risk Management (SL + TP)")
    /\ Has("Swing Trading Strategy")
    /\ likely_algorithm = "Professional Day Trading EA"

NoRuleName ==
    /\ NoFastOrMartingale
    /\ ~Has("Day Trading Strategy")
    /\ ~Has("Swing Trading Strategy")
    /\ ~Has("Position Trading Strategy")

\* the statistic as the claim reads it: 0 when the key is missing
StatOrZero(key) == IF key \in DOMAIN stats THEN stats[key] ELSE Num(0)

\* C5: when no name matches rules 1-6 the label comes from the statistics:
\* win rate < 40 and profit factor > 1.5 gives the trend-following label;
\* otherwise win rate > 70 and profit factor < 2 gives the mean-reversion
\* label; otherwise Custom/Hybrid; a missing statistic counts as 0.
C5_StatsFallback ==
    (pc = "resolved" /\ NoRuleName) =>
        LET wr == StatOrZero("win_rate")
            pf == StatOrZero("profit_factor")
            lowWin  == wr[1] < 40 * wr[2]
            highWin == wr[1] > 70 * wr[2]
            pfAbove15 == pf = Inf \/ 10 * pf[1] > 15 * pf[2]
            pfBelow2  == pf # Inf /\ pf[1] < 2 * pf[2]
        IN  likely_algorithm =
                IF lowWin /\ pfAbove15 THEN "High Risk-Reward Trend Following EA"
                ELSE IF highWin /\ pfBelow2 THEN "High Win-Rate Mean Reversion EA"
                ELSE "Custom/Hybrid Trading Algorithm"

C5_Witness ==
    /\ pc = "resolved"
    /\ NoRuleName
    /\ Len(patterns) > 0
    /\ DOMAIN stats = {"win_rate"}
    /\ stats["win_rate"] = Num(71)
    /\ likely_algorithm = "High Win-Rate Mean Reversion EA"

-----------------------------------------------------------------------------
(* The tables an analysis is run on.  Each family varies the columns some    *)
(* detectors read and holds the other columns at a default.                  *)

Deal(time, symbol, type, volume, profit, price, position_id) ==
    [time |-> time, symbol |-> symbol, type |-> type, volume |-> volume,
     profit |-> profit, price |-> price, position_id |-> position_id]

Order(symbol, type, price_open, sl, tp) ==
    [symbol |-> symbol, type |-> type, price_open |-> price_open, sl |-> sl, tp |-> tp]

\* Monday 10:00:00; Minute and Day are the ticks of a minute and of a day
T0 == 10 * 120
Minute == 60 \div 30
Day == 24 * 120

DefaultDeal == Deal(T0, "EURUSD", 0, 10, 5, 110000, 1)

TablesOver(rows, maxLen) == UNION {[1..n -> rows] : n \in 0..maxLen}

\* lot sizes and results
SizingRows ==
    {Deal(T0, "EURUSD", 0, v, p, 110000, 1) : v \in {10, 20}, p \in {-5, 5}}

\* a loss on the small lot recorded ahead of an earlier win on the large lot
ShuffledRows ==
    {Deal(T0 + Minute, "EURUSD", 0, 10, -5, 110000, 1),
     Deal(T0, "EURUSD", 0, 20, 5, 110000, 1)}

\* lot sizes a tenth apart
CloseLotRows == {Deal(T0, "EURUSD", 0, v, 5, 110000, 1) : v \in {10, 11}}

\* a deal, a deal two hours later followed by two more a minute apart, and a
\* deal on the next day
TimingRows ==
    {Deal(t, "EURUSD", 0, 10, 5, 110000, 1) :
        t \in {T0, T0 + 120 * Minute, T0 + 121 * Minute, T0 + 122 * Minute,
               T0 + Day + 30 * Minute}}

\* instruments and directions, and a balance operation (type 2)
SymbolRows ==
    {Deal(T0, s, ty, 10, 5, 110000, 1) : s \in {"EURUSD", "GBPUSD"}, ty \in {0, 1}}
        \cup {Deal(T0, "EURUSD", 2, 10, 0, 0, 0)}

\* entry prices and positions
PriceRows ==
    {Deal(T0, "EURUSD", 0, 10, 5, 100000, 1), Deal(T0 + 3, "EURUSD", 1, 10, 5, 110000, 1),
     Deal(T0, "EURUSD", 0, 10, -5, 112340, 2),
     Deal(T0 + 120 * Minute, "EURUSD", 1, 10, 5, 112345, 2)}

RECURSIVE Repeat(_, _)
Repeat(row, k) == IF k = 0 THEN <<>> ELSE Append(Repeat(row, k - 1), row)

\* busy days: one deal repeated past a frequency threshold, alone or followed
\* by one more deal
BulkCounts == {5, 6, 20, 21, 50, 51}
BulkTails ==
    {<<>>, <<Deal(T0 + Day, "EURUSD", 0, 10, 5, 110000, 1)>>,
     <<Deal(T0 + Minute, "GBPUSD", 1, 20, -5, 110000, 1)>>}
\* deals per day on each of two days: a steady daily count
SteadyCounts == {5, 11}

\* eight deals on one instrument and two on another; one deal on each of six
\* instruments
ConcentrationTables ==
    {Repeat(DefaultDeal, 8) \o Repeat(Deal(T0, "GBPUSD", 1, 10, 5, 110000, 1), 2),
     [i \in 1..6 |->
         Deal(T0, <<"EURUSD", "GBPUSD", "USDJPY", "AUDUSD", "USDCAD", "XAUUSD">>[i],
              0, 10, 5, 110000, 1)]}

\* results of +100, +50, -80, -40, +30 a minute apart, in time order and in
\* reverse; and a loss between two gains
DrawdownTables ==
    {[i \in 1..5 |-> Deal(T0 + i * Minute, "EURUSD", 0, 10,
                          <<100, 50, -80, -40, 30>>[i], 110000, 1)],
     [i \in 1..5 |-> Deal(T0 + (6 - i) * Minute, "EURUSD", 0, 10,
                          <<30, -40, -80, 50, 100>>[i], 110000, 1)],
     [i \in 1..3 |-> Deal(T0 + i * Minute, "EURUSD", 0, 10,
                          <<100, -50, 200>>[i], 110000, 1)]}

\* a balance operation (type 2) carrying an amount, alone and ahead of a
\* break-even trade, a winning trade or a losing trade
BalanceTables ==
    {<<Deal(T0, "EURUSD", 2, 0, amount, 0, 0)>> \o trades :
        amount \in {-1000, 1000},
        trades \in {<<>>} \cup {<<Deal(T0 + Minute, "EURUSD", 0, 10, p, 110000, 1)>> :
                                   p \in {-5, 0, 5}}}

BulkTables ==
    {Repeat(DefaultDeal, k) \o tail : k \in BulkCounts, tail \in BulkTails}
        \cup {Repeat(DefaultDeal, k) \o Repeat(Deal(T0 + Day, "EURUSD", 0, 10, 5, 110000, 1), k) :
                 k \in SteadyCounts}

DealTables ==
    TablesOver(SizingRows, MaxDeals) \cup TablesOver(TimingRows, MaxDeals)
        \cup TablesOver(ShuffledRows, MaxDeals) \cup TablesOver(CloseLotRows, MaxDeals)
        \cup TablesOver(SymbolRows, MaxDeals) \cup TablesOver(PriceRows, MaxDeals)
        \cup BulkTables \cup ConcentrationTables \cup DrawdownTables
        \cup BalanceTables

\* orders with and without stop loss and take profit
RiskOrderRows ==
    {Order("EURUSD", 0, 110000, sl, tp) : sl \in {0, 109500}, tp \in {0, 110500}}

\* a market order and pending limit orders at three price levels
GridOrderRows ==
    {Order("EURUSD", 0, 110000, 0, 0), Order("EURUSD", 2, 110000, 0, 0),
     Order("EURUSD", 2, 110100, 0, 0), Order("EURUSD", 3, 110200, 0, 0)}

\* five pending limit orders one hundred points apart
GridLadder == [i \in 1..5 |-> Order("EURUSD", 2, 110000 + 100 * (i - 1), 0, 0)]

\* an orders table without the sl and tp columns (unset stops left out)
StoplessOrderRows == {[symbol |-> "EURUSD", type |-> 0, price_open |-> 110000]}
StoplessOrderTables == {<<row>> : row \in StoplessOrderRows}

\* the deals tables the order families are paired with
RiskDeals == {<<>>, <<DefaultDeal>>}
GridDeals == {<<DefaultDeal>>, <<Deal(T0, "GBPUSD", 0, 10, 5, 110000, 1)>>}

Inputs ==
    (DealTables \X {<<>>})
        \cup (RiskDeals \X TablesOver(RiskOrderRows, MaxOrders))
        \cup (GridDeals \X (TablesOver(GridOrderRows, MaxOrders) \cup {GridLadder}))
        \cup (RiskDeals \X StoplessOrderTables)
        \cup (BulkTables \X {Repeat(Order("EURUSD", 0, 110000, 109500, 110500), 5)})

-----------------------------------------------------------------------------
(* One analysis: identify_algorithm_type, then the detectors of              *)
(* AdvancedAnalytics in the order generate_advanced_report calls them.       *)

EmptyDict == [k \in {} |-> 0]

Init ==
    /\ \E input \in Inputs : deals_df = input[1] /\ orders_df = input[2]
    /\ pc = "loaded"
    /\ patterns = <<>>
    /\ stats = EmptyDict
    /\ likely_algorithm = "None"
    /\ signature = NoSignature
    /\ analytics = EmptyDict
    /\ rerun = NoSignature
    /\ Offline

\* the caller's deals table once the detectors have run: they add their
\* columns to copies (lines 302, 436) and sort into a new frame (line 332)
AfterDetectors_SortedInPlace(df) == SortByTime(df)

AfterDetectors(df) == df

\* the results appended before the first call that raises
RECURSIVE UntilRaised(_)
UntilRaised(results) ==
    IF results = <<>> \/ IsRaised(Head(results)) THEN <<>>
    ELSE <<Head(results)>> \o UntilRaised(Tail(results))

\* identify_algorithm_type up to line 536: every detector has been called, or
\* one of the calls raised and the exception left the function (no try/except)
DetectPatterns ==
    /\ pc = "loaded"
    /\ \E results \in {DetectAllPatterns(deals_df, orders_df)} :
           IF \E i \in DOMAIN results : IsRaised(results[i])
           THEN patterns' = UntilRaised(results) /\ pc' = "raised"
           ELSE patterns' = results /\ pc' = "detected"
    /\ deals_df' = AfterDetectors(deals_df)
    /\ UNCHANGED <<orders_df, stats, likely_algorithm, signature, analytics, rerun,
                   live>>

\* identify_algorithm_type from line 538 to its return
IdentifyAlgorithmType ==
    /\ pc = "detected"
    /\ patterns' = FilterNone(patterns)
    /\ stats' = CalculateTradeStatistics(deals_df)
    /\ likely_algorithm' = DetermineAlgorithmType(patterns', stats')
    /\ signature' = AlgorithmSignature(likely_algorithm', AverageConfidence(patterns'),
                        patterns',
                        [statistics |-> stats', pattern_count |-> Len(patterns'),
                         analysis_period_days |-> AnalysisPeriodDays(deals_df)])
    /\ pc' = "identified"
    /\ UNCHANGED <<deals_df, orders_df, analytics, rerun, live>>

\* a second call of identify_algorithm_type on the tables the first call left
IdentifyAgain ==
    /\ pc = "reported"
    /\ \E pats \in {FilterNone(DetectAllPatterns(deals_df, orders_df))},
          st \in {CalculateTradeStatistics(deals_df)} :
           rerun' = AlgorithmSignature(DetermineAlgorithmType(pats, st),
                        AverageConfidence(pats), pats,
                        [statistics |-> st, pattern_count |-> Len(pats),
                         analysis_period_days |-> AnalysisPeriodDays(deals_df)])
    /\ pc' = "repeated"
    /\ UNCHANGED <<deals_df, orders_df, patterns, stats, likely_algorithm, signature,
                   analytics, live>>

\* analytics with one more result
Record(name, result) ==
    [k \in DOMAIN analytics \cup {name} |-> IF k = name THEN result ELSE analytics[k]]

Analyse(from, to, name, result) ==
    /\ pc = from
    /\ analytics' = Record(name, result)
    /\ pc' = to
    /\ UNCHANGED <<deals_df, orders_df, patterns, stats, likely_algorithm, signature,
                   rerun, live>>

GridTradingStep ==
    Analyse("identified", "grid", "grid", DetectGridTrading(deals_df, orders_df))
NewsTradingStep ==
    Analyse("grid", "news", "news", DetectNewsTrading(deals_df))
CorrelationTradingStep ==
    Analyse("news", "correlation", "correlation", DetectCorrelationTrading(deals_df))
HedgingStrategyStep ==
    Analyse("correlation", "hedging", "hedging", DetectHedgingStrategy(deals_df))
ScalingInOutStep ==
    Analyse("hedging", "scaling", "scaling", DetectScalingInOut(deals_df))
EntryPrecisionStep ==
    Analyse("scaling", "precision", "precision", AnalyzeEntryPrecision(deals_df))
MaximumDrawdownStep ==
    Analyse("precision", "drawdown", "drawdown", CalculateMaximumDrawdown(deals_df))
TradeDurationStep ==
    Analyse("drawdown", "reported", "duration", AnalyzeTradeDuration(deals_df))

Next ==
    \/ DetectPatterns
    \/ IdentifyAlgorithmType
    \/ GridTradingStep
    \/ NewsTradingStep
    \/ CorrelationTradingStep
    \/ HedgingStrategyStep
    \/ ScalingInOutStep
    \/ EntryPrecisionStep
    \/ MaximumDrawdownStep
    \/ TradeDurationStep
    \/ IdentifyAgain

Spec == Init /\ [][Next]_vars

-----------------------------------------------------------------------------
(* Live use: a connected monitor whose caller fetches the tables and whose   *)
(* monitor_live loop polls the terminal, while the terminal records deals.   *)

\* the time monitor_live is entered, and interval_seconds = 60
Start == T0 + 2 * Day
Interval == 60 \div 30

LiveDeal(time, profit, position_id) ==
    Deal(time, "EURUSD", 0, 10, profit, 110000, position_id)

\* an order row with the time it was placed
LiveOrder ==
    [symbol |-> "EURUSD", type |-> 0, price_open |-> 110000, sl |-> 109500,
     tp |-> 110500, time_setup |-> T0 + Day]

\* what the terminal holds at the start: nothing, a deal from two days
\* ago, or a deal from the last minute
InitialHistories ==
    {<<>>, <<LiveDeal(T0, 5, 1)>>, <<LiveDeal(Start - Interval, 5, 1)>>}

InitLive ==
    /\ deals_df = EmptyFrame
    /\ orders_df = EmptyFrame
    /\ pc = "connect"
    /\ patterns = <<>>
    /\ stats = EmptyDict
    /\ likely_algorithm = "None"
    /\ signature = NoSignature
    /\ analytics = EmptyDict
    /\ rerun = NoSignature
    /\ connected = TRUE
    /\ history_deals \in InitialHistories
    /\ history_orders \in {<<>>, <<LiveOrder>>}
    /\ now = Start
    /\ last_deal_time = Start - Day
    /\ callbacks = 0
    /\ fetch_log = NoLog

\* the detectors' tables and locals, which the connection leaves alone
analysis == <<patterns, stats, likely_algorithm, analytics, rerun>>

\* connect(), when mt5.initialize() and mt5.login() succeed
Connect ==
    /\ ~connected
    /\ connected' = TRUE
    /\ pc' = "connect"
    /\ UNCHANGED <<deals_df, orders_df, signature, analysis, history_deals,
                   history_orders, now, last_deal_time, callbacks, fetch_log>>

\* disconnect()
Disconnect ==
    /\ connected
    /\ connected' = FALSE
    /\ pc' = "disconnect"
    /\ UNCHANGED <<deals_df, orders_df, signature, analysis, history_deals,
                   history_orders, now, last_deal_time, callbacks, fetch_log>>

\* the terminal records a deal
TerminalDeal ==
    /\ Len(history_deals) < MaxHistory
    /\ \E profit \in {-5, 5} :
           history_deals' =
               Append(history_deals, LiveDeal(now, profit, Len(history_deals) + 1))
    /\ UNCHANGED <<deals_df, orders_df, pc, signature, analysis, connected,
                   history_orders, now, last_deal_time, callbacks, fetch_log>>

\* deals_df = monitor.get_historical_deals(days_back=30)
FetchDeals ==
    /\ \E fetched \in {GetHistoricalDeals(connected, history_deals, now, 30)} :
           deals_df' = fetched.frame /\ fetch_log' = fetched.log
    /\ pc' = "get_historical_deals"
    /\ UNCHANGED <<orders_df, signature, analysis, connected, history_deals,
                   history_orders, now, last_deal_time, callbacks>>

\* orders_df = monitor.get_historical_orders(days_back=30)
FetchOrders ==
    /\ \E fetched \in {GetHistoricalOrders(connected, history_orders, now, 30)} :
           orders_df' = fetched.frame /\ fetch_log' = fetched.log
    /\ pc' = "get_historical_orders"
    /\ UNCHANGED <<deals_df, signature, analysis, connected, history_deals,
                   history_orders, now, last_deal_time, callbacks>>

\* identify_algorithm_type(df, orders) on tables no detector raises on
SignatureOf(df, orders) ==
    CHOOSE result \in
        {AlgorithmSignature(DetermineAlgorithmType(pats, st), AverageConfidence(pats),
                            pats,
                            [statistics |-> st, pattern_count |-> Len(pats),
                             analysis_period_days |-> AnalysisPeriodDays(df)]) :
            pats \in {FilterNone(DetectAllPatterns(df, orders))},
            st \in {CalculateTradeStatistics(df)}} : TRUE

\* every deal of the terminal counts as new
NewDeals_All(conn, held, since, until) ==
    HistoryGet(conn, held, "time", 0, until)

\* deals = mt5.history_deals_get(last_deal_time, datetime.now())
NewDeals(conn, held, since, until) == HistoryGet(conn, held, "time", since, until)

\* one pass of monitor_live's loop, with a callback given, up to the end of
\* its sleep
MonitorLiveTick ==
    /\ now < Start + MaxPolls * Interval
    /\ \E deals \in {NewDeals(connected, history_deals, last_deal_time, now)} :
           IF ~deals.none /\ Len(deals.records) > 0
           THEN /\ last_deal_time' = now
                /\ \E d \in {GetHistoricalDeals(connected, history_deals, now, 30)},
                      o \in {GetHistoricalOrders(connected, history_orders, now, 30)} :
                       /\ deals_df' = d.frame
                       /\ orders_df' = o.frame
                       /\ fetch_log' = o.log
                       /\ signature' = SignatureOf(d.frame, o.frame)
                /\ callbacks' = callbacks + 1
           ELSE UNCHANGED <<last_deal_time, deals_df, orders_df, fetch_log, signature,
                            callbacks>>
    /\ now' = now + Interval
    /\ pc' = "monitor_live"
    /\ UNCHANGED <<analysis, connected, history_deals, history_orders>>

NextLive ==
    \/ Connect
    \/ Disconnect
    \/ TerminalDeal
    \/ FetchDeals
    \/ FetchOrders
    \/ MonitorLiveTick

SpecLive == InitLive /\ [][NextLive]_vars

-----------------------------------------------------------------------------
(* Claims about one analysis (checked under Spec) *)

RECURSIVE ConfidenceTotal(_)
ConfidenceTotal(ps) ==
    IF ps = <<>> THEN Num(0) ELSE FAdd(Head(ps).confidence, ConfidenceTotal(Tail(ps)))

Identified == pc \notin {"loaded", "detected", "raised"}

\* C6: the signature's confidence is the arithmetic mean of the confidences
\* of exactly the patterns in signature.patterns (absent detectors are not
\* in the list and add nothing), and 0 when the list is empty.
C6_MeanConfidence ==
    Identified =>
        LET ps == signature.patterns
        IN  /\ \A i \in DOMAIN ps : ~IsNone(ps[i])
            /\ IF Len(ps) = 0 THEN signature.confidence = Num(0)
               ELSE FMul(signature.confidence, Num(Len(ps))) = ConfidenceTotal(ps)

C6_Witness ==
    /\ Identified
    /\ Len(signature.patterns) = 5
    /\ \E i, j \in DOMAIN signature.patterns :
           signature.patterns[i].confidence # signature.patterns[j].confidence
    /\ \A i \in DOMAIN signature.patterns :
           signature.patterns[i].confidence # signature.confidence

InUnitInterval(c) == FLe(Num(0), c) /\ FLe(c, Num(1))

\* C7: every pattern's confidence, the signature's confidence and every
\* advanced detector's confidence lie in [0, 1].
C7_ConfidenceInUnitInterval ==
    /\ \A i \in DOMAIN patterns :
           ~IsNone(patterns[i]) => InUnitInterval(patterns[i].confidence)
    /\ Identified => InUnitInterval(signature.confidence)
    /\ \A name \in DOMAIN analytics :
           "confidence" \in DOMAIN analytics[name] =>
               InUnitInterval(analytics[name]["confidence"])

\* a table with a steady daily count (the +0.05 bonus applied) whose scaling
\* confidence sits at its cap
C7_Witness ==
    /\ pc = "reported"
    /\ Len(patterns) = 5
    /\ patterns[4].pattern_name = "Day Trading Strategy"
    /\ patterns[4].confidence = Frac(8, 10)
    /\ analytics["scaling"]["confidence"] = Frac(85, 100)
    /\ analytics["correlation"]["confidence"] = Num(0)

\* the detection flag of each advanced detector's result
Flag(name) ==
    CASE name = "grid" -> "is_grid"
      [] name = "news" -> "is_news_trading"
      [] name = "correlation" -> "is_correlation_trading"
      [] name = "hedging" -> "is_hedging"
      [] name = "scaling" -> "is_scaling"
      [] OTHER -> "none"

AbsentResult(name, result) ==
    \/ DOMAIN result = {}
    \/ /\ Flag(name) \in DOMAIN result
       /\ result[Flag(name)] = FALSE
       /\ result["confidence"] = Num(0)

\* C8: on an empty deals table every core detector returns None and every
\* advanced detector returns a result with its flag False and confidence 0.0,
\* or an empty mapping.
C8_EmptyDealsAbsent ==
    IsEmpty(deals_df) =>
        /\ pc = "detected" => (Len(patterns) = 5 /\ \A i \in 1..5 : IsNone(patterns[i]))
        /\ \A name \in DOMAIN analytics \ {"drawdown"} :
               AbsentResult(name, analytics[name])

C8_Witness ==
    /\ IsEmpty(deals_df)
    /\ ~IsEmpty(orders_df)
    /\ pc = "reported"
    /\ DOMAIN analytics = {"grid", "news", "correlation", "hedging", "scaling",
                           "precision", "drawdown", "duration"}
    /\ patterns = <<>>

\* C9: a detector given a single deal returns absence, never a pattern with
\* positive confidence.
C9_SingleDealAbsent ==
    (Len(deals_df) = 1 /\ pc = "detected") =>
        \A i \in DOMAIN patterns :
            IsNone(patterns[i]) \/ ~FGt(patterns[i].confidence, Num(0))

\* C10: on an empty deals table, whatever the orders table, the signature is
\* "Custom/Hybrid Trading Algorithm" with confidence 0, no patterns,
\* pattern_count 0 and analysis_period_days 0.
C10_EmptyDealsSignature ==
    (IsEmpty(deals_df) /\ Identified) =>
        /\ signature.likely_algorithm = "Custom/Hybrid Trading Algorithm"
        /\ signature.confidence = Num(0)
        /\ Len(signature.patterns) = 0
        /\ signature.characteristics.pattern_count = 0
        /\ signature.characteristics.analysis_period_days = 0
        /\ DOMAIN signature.characteristics.statistics = {}

C10_Witness ==
    /\ IsEmpty(deals_df)
    /\ Len(orders_df) = 5
    /\ \A i \in DOMAIN orders_df : orders_df[i].sl > 0 /\ orders_df[i].tp > 0
    /\ pc = "identified"
    /\ signature.likely_algorithm = "Custom/Hybrid Trading Algorithm"

\* C11: when one detector raises inside identify_algorithm_type, the other
\* detectors' patterns are kept, the resolver runs on them and a signature
\* is returned.
C11_FaultIsolated ==
    pc = "raised" =>
        /\ signature # NoSignature
        /\ likely_algorithm # "None"
        /\ \A i \in DOMAIN patterns : InList(patterns[i], signature.patterns)

Volumes == Column(deals_df, "volume")

\* the position-sizing result of a table with rows, once the detectors ran
Sizing == patterns[1]

Sized == pc = "detected" /\ ~IsEmpty(deals_df)

\* C13: when the lot sizes are not all identical and the martingale rule
\* does not fire, a table of any size is classified by the coefficient of
\* variation: "Consistent Proportional Sizing" (0.7) when CV < 0.2, otherwise
\* "Dynamic/Variable Sizing" (0.6).
C13_VariationClass ==
    (Sized /\ Cardinality(Range(Volumes)) > 1
           /\ Sizing.pattern_name # "Martingale/Anti-Martingale") =>
        IF FLt(CoefficientOfVariationSq(Volumes), Frac(4, 100))
        THEN Sizing.pattern_name = "Consistent Proportional Sizing"
                 /\ Sizing.confidence = Frac(7, 10)
        ELSE Sizing.pattern_name = "Dynamic/Variable Sizing"
                 /\ Sizing.confidence = Frac(6, 10)

\* transitions i -> i+1 after a loss with the lot raised at least 1.8 times
MartingaleSteps ==
    Cardinality({i \in 1..(Len(deals_df) - 1) :
                    deals_df[i].profit < 0
                        /\ 10 * deals_df[i + 1].volume >= 18 * deals_df[i].volume})

IsMartingale == Sizing.pattern_name = "Martingale/Anti-Martingale"
                    /\ Sizing.confidence = Frac(8, 10)

\* C14 as stated: with at least 4 deals and non-identical lots, the result is
\* "Martingale/Anti-Martingale" (0.8) exactly when the martingale steps are at
\* least 30% of the transitions (the number of deals minus one).
C14_ShareOfTransitions ==
    (Sized /\ Len(deals_df) >= 4 /\ Cardinality(Range(Volumes)) > 1) =>
        (IsMartingale <=> 10 * MartingaleSteps >= 3 * (Len(deals_df) - 1))

\* C14: with at least 4 deals and non-identical lots, the result is
\* "Martingale/Anti-Martingale" (0.8) exactly when the martingale steps
\* exceed 30% of the number of deals.
C14_ShareOfDeals ==
    (Sized /\ Len(deals_df) >= 4 /\ Cardinality(Range(Volumes)) > 1) =>
        (IsMartingale <=> 10 * MartingaleSteps > 3 * Len(deals_df))

C14_Witness ==
    /\ Sized
    /\ Len(deals_df) = 4
    /\ MartingaleSteps = 2
    /\ IsMartingale
    /\ Sizing.metrics["martingale_ratio"] = Frac(2, 4)

\* C15: when every deal of a table with rows has the same volume v, the
\* result is "Fixed Lot Size" with confidence 0.95 and metrics.lot_size = v,
\* and carries nothing of the martingale or coefficient-of-variation branches.
C15_FixedLot ==
    (Sized /\ \A i \in DOMAIN deals_df : deals_df[i].volume = deals_df[1].volume) =>
        /\ Sizing.pattern_name = "Fixed Lot Size"
        /\ Sizing.confidence = Frac(95, 100)
        /\ DOMAIN Sizing.metrics = {"lot_size"}
        /\ Sizing.metrics["lot_size"] = deals_df[1].volume
        /\ Len(Sizing.evidence) = 1

\* four deals on one lot size, a loss among them
C15_Witness ==
    /\ Sized
    /\ Len(deals_df) = 4
    /\ \A i \in DOMAIN deals_df : deals_df[i].volume = 20
    /\ \E i \in DOMAIN deals_df : deals_df[i].profit < 0
    /\ Sizing.pattern_name = "Fixed Lot Size"

\* C16: the position-sizing result does not depend on the row order: it is
\* the result on the same rows in time order (name, confidence and metrics).
C16_TimeOrder ==
    Sized =>
        \E sorted \in {DetectPositionSizingPattern(SortByTime(deals_df))} :
            /\ Sizing.pattern_name = sorted.pattern_name
            /\ Sizing.confidence = sorted.confidence
            /\ Sizing.metrics = sorted.metrics

\* the risk-management result and the orders that set a stop or a target
Risk == patterns[3]
WithStop == Cardinality({i \in DOMAIN orders_df : orders_df[i].sl > 0})
WithTarget == Cardinality({i \in DOMAIN orders_df : orders_df[i].tp > 0})

\* more than 80% of the orders
MostOrders(count) == 100 * count > 80 * Len(orders_df)

RiskClass ==
    IF MostOrders(WithStop) /\ MostOrders(WithTarget)
        THEN <<"Strict Risk Management (SL + TP)", Frac(9, 10)>>
    ELSE IF MostOrders(WithStop) THEN <<"Conservative (SL Only)", Frac(8, 10)>>
    ELSE IF MostOrders(WithTarget) THEN <<"Profit Target Based", Frac(75, 100)>>
    ELSE <<"Flexible/Manual Risk Management", Frac(6, 10)>>

Frequency == patterns[4]
TradingDays == Cardinality({Date(deals_df[i].time) : i \in DOMAIN deals_df})

FrequencyClass ==
    LET n == Len(deals_df)
        days == TradingDays
    IN  IF n > 50 * days THEN <<"High-Frequency Trading (HFT)", Frac(85, 100)>>
        ELSE IF n > 20 * days THEN <<"Scalping Strategy", Frac(8, 10)>>
        ELSE IF n > 5 * days THEN <<"Day Trading Strategy", Frac(75, 100)>>
        ELSE IF n > days THEN <<"Swing Trading Strategy", Frac(7, 10)>>
        ELSE <<"Position Trading Strategy", Frac(7, 10)>>

\* the per-day counts deviate by less than 30% of their mean
SteadyDays ==
    StdLt(SampleVariance(TradesPerDay(deals_df)),
          FMul(Frac(Len(deals_df), TradingDays), Frac(3, 10)))

\* C18: the frequency class follows the mean deals per calendar day with
\* strict thresholds (a mean equal to a threshold falls in the lower class);
\* the confidence is the class's, plus exactly 0.05 when the per-day counts'
\* standard deviation is below 30% of their mean; the name ignores the bonus.
C18_FrequencyClass ==
    Sized =>
        /\ Frequency.pattern_name = FrequencyClass[1]
        /\ Frequency.confidence =
               IF SteadyDays THEN FAdd(FrequencyClass[2], Frac(5, 100))
               ELSE FrequencyClass[2]

\* five deals on each of two days: a mean on the threshold 5, steady counts
C18_Witness ==
    /\ Sized
    /\ Len(deals_df) = 10
    /\ TradingDays = 2
    /\ SteadyDays
    /\ Frequency.pattern_name = "Swing Trading Strategy"
    /\ Frequency.confidence = Frac(75, 100)

\* the symbol result, the instruments traded and their deal counts
Instrument == patterns[5]
Symbols == {deals_df[i].symbol : i \in DOMAIN deals_df}
DealsOn(symbol) == Cardinality({i \in DOMAIN deals_df : deals_df[i].symbol = symbol})
TopCount == Max({DealsOn(symbol) : symbol \in Symbols})

\* C19: one distinct symbol gives "Single Instrument Specialist" (0.95); else
\* a top symbol share above 70% gives "Focused Instrument Strategy" (0.85);
\* else at most 5 distinct symbols gives "Multi-Instrument Strategy" (0.75);
\* else "Diversified Portfolio Strategy" (0.7); top_symbol is a symbol with
\* the most deals and top_symbol_concentration its share in percent.
C19_SymbolClass ==
    Sized =>
        /\ Instrument.pattern_name =
               IF Cardinality(Symbols) = 1 THEN "Single Instrument Specialist"
               ELSE IF 100 * TopCount > 70 * Len(deals_df) THEN "Focused Instrument Strategy"
               ELSE IF Cardinality(Symbols) <= 5 THEN "Multi-Instrument Strategy"
               ELSE "Diversified Portfolio Strategy"
        /\ Instrument.confidence =
               IF Cardinality(Symbols) = 1 THEN Frac(95, 100)
               ELSE IF 100 * TopCount > 70 * Len(deals_df) THEN Frac(85, 100)
               ELSE IF Cardinality(Symbols) <= 5 THEN Frac(75, 100)
               ELSE Frac(7, 10)
        /\ DealsOn(Instrument.metrics.top_symbol) = TopCount
        /\ Instrument.metrics.top_symbol_concentration = Frac(100 * TopCount, Len(deals_df))
        /\ Instrument.metrics.total_symbols_traded = Cardinality(Symbols)

\* eight deals on EURUSD and two on GBPUSD
C19_Witness ==
    /\ Sized
    /\ Len(deals_df) = 10
    /\ DealsOn("EURUSD") = 8
    /\ DealsOn("GBPUSD") = 2
    /\ Instrument.pattern_name = "Focused Instrument Strategy"
    /\ Instrument.confidence = Frac(85, 100)
    /\ Instrument.metrics.top_symbol = "EURUSD"
    /\ Instrument.metrics.top_symbol_concentration = Num(80)

\* the symbol's pending limit orders are at least 3 and evenly spaced
EvenlySpaced(symbol) ==
    /\ Len(PendingOrders(orders_df, symbol)) >= 3
    /\ StdLt(PopVariance(GridSpacing(orders_df, symbol)),
             FMul(Mean(GridSpacing(orders_df, symbol)), Frac(3, 10)))

OrdersOn(symbol) == Cardinality({i \in DOMAIN orders_df : orders_df[i].symbol = symbol})

GridFound(symbol) ==
    /\ analytics["grid"]["is_grid"] = TRUE
    /\ analytics["grid"]["confidence"] = Frac(8, 10)
    /\ analytics["grid"]["grid_spacing"] = Mean(GridSpacing(orders_df, symbol))

\* C20 as stated: whenever some symbol has at least 3 pending limit orders
\* whose sorted price differences deviate by less than 0.3 times their mean,
\* is_grid is True with confidence 0.8 and grid_spacing the mean spacing.
C20_GridOfOrders ==
    "grid" \in DOMAIN analytics =>
        \A symbol \in {orders_df[i].symbol : i \in DOMAIN orders_df} :
            EvenlySpaced(symbol) => GridFound(symbol)

\* C20: is_grid is True (confidence 0.8, grid_spacing the mean spacing)
\* exactly when some symbol of the deals table has at least 5 orders, at
\* least 3 of them pending limit orders, evenly spaced; otherwise is_grid is
\* False with confidence 0.
C20_GridOfTradedSymbol ==
    "grid" \in DOMAIN analytics =>
        IF \E symbol \in Symbols : OrdersOn(symbol) >= 5 /\ EvenlySpaced(symbol)
        THEN \E symbol \in Symbols :
                 OrdersOn(symbol) >= 5 /\ EvenlySpaced(symbol) /\ GridFound(symbol)
        ELSE analytics["grid"]["is_grid"] = FALSE
                 /\ analytics["grid"]["confidence"] = Num(0)

\* five pending limit orders 0.00100 apart on the traded symbol
C20_Witness ==
    /\ "grid" \in DOMAIN analytics
    /\ Len(PendingOrders(orders_df, "EURUSD")) = 5
    /\ Cardinality({orders_df[i].price_open : i \in DOMAIN orders_df}) = 5
    /\ analytics["grid"]["is_grid"] = TRUE
    /\ analytics["grid"]["confidence"] = Frac(8, 10)
    /\ analytics["grid"]["grid_spacing"] = Num(100)

\* the types of a symbol's deals in time order, the deals that repeat the
\* type of the symbol's previous deal, and those that start a run of repeats
TypesOf(symbol) == Column(SymbolDeals(SortByTime(deals_df), symbol), "type")
Repeats(types) == {i \in 2..Len(types) : types[i] = types[i - 1]}
RunStarts(types) == {i \in Repeats(types) : i = 2 \/ types[i - 2] # types[i - 1]}
Scaled == pc = "scaling" /\ ~IsEmpty(deals_df)
Scaling == analytics["scaling"]

ScalingFlagged ==
    /\ Scaling["is_scaling"] = (Scaling["scaling_instances"] > 0)
    /\ Scaling["confidence"] =
           FMin(Frac(2 * Scaling["scaling_instances"], 10), Frac(85, 100))

\* C21 as stated: scaling_instances counts each maximal run of 2 or more
\* consecutive deals of one type on a symbol exactly once; is_scaling iff the
\* count is > 0 and confidence = min(count * 0.2, 0.85).
C21_EachRunOnce ==
    Scaled =>
        /\ Scaling["scaling_instances"] =
               Cardinality(UNION {{<<symbol, i>> : i \in RunStarts(TypesOf(symbol))} :
                                     symbol \in Symbols})
        /\ ScalingFlagged

\* C21: scaling_instances counts, over the symbols with at least 3 deals,
\* every deal whose type equals the type of the symbol's previous deal in
\* time order (a run of length k adds k - 1); is_scaling iff the count is
\* > 0 and confidence = min(count * 0.2, 0.85).
C21_EachRepeat ==
    Scaled =>
        /\ Scaling["scaling_instances"] =
               Cardinality(UNION {{<<symbol, i>> : i \in Repeats(TypesOf(symbol))} :
                                     symbol \in {s \in Symbols : DealsOn(s) >= 3}})
        /\ ScalingFlagged

\* three buys in a row on one symbol: one run, two repeats
C21_Witness ==
    /\ Scaled
    /\ Len(deals_df) = 3
    /\ \A i \in DOMAIN deals_df : deals_df[i].symbol = "EURUSD" /\ deals_df[i].type = 0
    /\ Scaling["scaling_instances"] = 2
    /\ Scaling["is_scaling"] = TRUE
    /\ Scaling["confidence"] = Frac(4, 10)

\* the deal times in order, the gap after the i-th deal in minutes, and the
\* gaps that open a burst
Times == SortInts(Column(deals_df, "time"))
GapTicks(i) == Times[i + 1] - Times[i]
LongGap(i) == GapTicks(i) > 60 * Minute
ShortGap(i) == GapTicks(i) < 5 * Minute
Bursts ==
    {i \in 1..(Len(deals_df) - 1) :
        /\ LongGap(i)
        /\ Cardinality({j \in (i + 1)..(i + 3) :
                           j <= Len(deals_df) - 1 /\ ShortGap(j)}) >= 2}
Newsed == pc = "news" /\ ~IsEmpty(deals_df)
News == analytics["news"]

\* C22: one cluster for each gap longer than 60 minutes followed, among the
\* next 3 gaps, by at least 2 gaps shorter than 5 minutes; cluster_ratio =
\* clusters / number of deals; is_news_trading iff cluster_ratio > 0.1;
\* confidence = min(cluster_ratio * 5, 0.9).
C22_NewsClusters ==
    Newsed =>
        /\ News["clusters_detected"] = Cardinality(Bursts)
        /\ News["cluster_ratio"] = Frac(Cardinality(Bursts), Len(deals_df))
        /\ News["is_news_trading"] = (10 * Cardinality(Bursts) > Len(deals_df))
        /\ News["confidence"] =
               FMin(Frac(5 * Cardinality(Bursts), Len(deals_df)), Frac(9, 10))

\* a deal, then two hours later three deals a minute apart
C22_Witness ==
    /\ Newsed
    /\ Len(deals_df) = 4
    /\ LongGap(1) /\ ShortGap(2) /\ ShortGap(3)
    /\ News["clusters_detected"] = 1
    /\ News["cluster_ratio"] = Frac(1, 4)
    /\ News["is_news_trading"] = TRUE
    /\ News["confidence"] = Frac(9, 10)

\* the deals in the order of the permutation p, the permutations that put
\* them in time order, and those that leave deals of one time in row order
Arranged(p) == [i \in DOMAIN deals_df |-> deals_df[p[i]]]
TimeOrders ==
    {p \in [DOMAIN deals_df -> DOMAIN deals_df] :
        /\ \A i, j \in DOMAIN deals_df : i # j => p[i] # p[j]
        /\ \A i \in 1..(Len(deals_df) - 1) :
               deals_df[p[i]].time <= deals_df[p[i + 1]].time}
KeepsRowOrder(p) ==
    \A i, j \in DOMAIN deals_df :
        (i < j /\ deals_df[p[i]].time = deals_df[p[j]].time) => p[i] < p[j]

\* cumulative profit after the i-th row, its running maximum, the drawdown
\* there, and the largest drawdown of the rows
Balance(rows, i) == SumTo(Column(rows, "profit"), i)
Peak(rows, i) == Max({Balance(rows, j) : j \in 1..i})
Drop(rows, i) == Peak(rows, i) - Balance(rows, i)
MaxDrop(rows) == Max({Drop(rows, i) : i \in DOMAIN rows})

Drawn == pc = "drawdown" /\ ~IsEmpty(deals_df)
Drawdown == analytics["drawdown"]
\* tables short enough to go through their arrangements
Short == Len(deals_df) <= MaxDeals + 1

Ordered == SortByTime(deals_df)
Trough == Min({i \in DOMAIN Ordered : Drop(Ordered, i) = MaxDrop(Ordered)})
Crest == Min({i \in 1..Trough : Balance(Ordered, i) = Peak(Ordered, Trough)})

\* C24: max_drawdown_pct is the peak drawdown as a percentage of the
\* running maximum of cumulative profit at the deal of the peak drawdown (0
\* when that maximum is not positive), and drawdown_start is the time of the
\* deal at which that running maximum was set.
C24_PctOfRunningMaxAtTrough ==
    Drawn =>
        /\ Drawdown["max_drawdown_pct"] =
               IF Peak(Ordered, Trough) > 0
                   THEN Frac(100 * MaxDrop(Ordered), Peak(Ordered, Trough))
                   ELSE Num(0)
        /\ Drawdown["drawdown_start"] = Ordered[Crest].time

\* the trade deals (type 0 buy, 1 sell), their gains and their losses
Trades == {i \in DOMAIN deals_df : deals_df[i].type \in {0, 1}}
GrossProfit ==
    Sum([i \in DOMAIN deals_df |->
            IF i \in Trades /\ deals_df[i].profit > 0 THEN deals_df[i].profit ELSE 0])
GrossLoss ==
    Sum([i \in DOMAIN deals_df |->
            IF i \in Trades /\ deals_df[i].profit < 0 THEN 0 - deals_df[i].profit ELSE 0])
Counted == pc = "identified"

\* C25: over the deals of type 0 or 1, profit_factor is gross profit / gross
\* loss when gross loss > 0, +infinity when gross loss is 0 and gross
\* profit > 0, and 0 when both are 0; the statistics are empty when there is
\* no deal of type 0 or 1.
C25_ProfitFactor ==
    Counted =>
        IF Trades = {} THEN stats = EmptyDict
        ELSE /\ "profit_factor" \in DOMAIN stats
             /\ GrossLoss > 0 => stats["profit_factor"] = Frac(GrossProfit, GrossLoss)
             /\ (GrossLoss = 0 /\ GrossProfit > 0) => stats["profit_factor"] = Inf
             /\ (GrossLoss = 0 /\ GrossProfit = 0) => stats["profit_factor"] = Num(0)

\* a withdrawal and a break-even trade: no gain and no loss among the trades
C25_Witness ==
    /\ Counted
    /\ Len(deals_df) = 2
    /\ deals_df[1].type = 2 /\ deals_df[1].profit < 0
    /\ deals_df[2].type = 0 /\ deals_df[2].profit = 0
    /\ stats["total_trades"] = Num(1)
    /\ stats["profit_factor"] = Num(0)

\* the hours and weekdays of the trade deals, the number of trades in each,
\* and the trades whose hour or weekday is a most frequent one
TradeHour(i) == Hour(deals_df[i].time)
TradeDay(i) == DayOfWeek(deals_df[i].time)
InHour(h) == Cardinality({i \in Trades : TradeHour(i) = h})
OnDay(d) == Cardinality({i \in Trades : TradeDay(i) = d})
BusiestHour == {i \in Trades : \A j \in Trades : InHour(TradeHour(j)) <= InHour(TradeHour(i))}
BusiestDay == {i \in Trades : \A j \in Trades : OnDay(TradeDay(j)) <= OnDay(TradeDay(i))}
Timed == Counted /\ Trades # {}

\* C26 as stated: most_active_hour and most_active_day are the most frequent
\* hour and weekday among the trade deals, the one met first in the table
\* when several tie.
C26_FirstEncountered ==
    Timed =>
        /\ stats["most_active_hour"] = Num(TradeHour(Min(BusiestHour)))
        /\ stats["most_active_day"] = Num(TradeDay(Min(BusiestDay)))

\* C26: most_active_hour and most_active_day are the most frequent hour and
\* weekday among the trade deals, the smallest one when several tie.
C26_SmallestOfTied ==
    Timed =>
        /\ stats["most_active_hour"] = Num(Min({TradeHour(i) : i \in BusiestHour}))
        /\ stats["most_active_day"] = Num(Min({TradeDay(i) : i \in BusiestDay}))

\* a trade at 12:00 recorded ahead of a trade at 10:00
C26_Witness ==
    /\ Timed
    /\ Len(deals_df) = 2
    /\ TradeHour(1) = 12 /\ TradeHour(2) = 10
    /\ stats["most_active_hour"] = Num(10)

\* the labels of rules 1-6 and the names of the frequency detector
RuleLabels ==
    {"High-Frequency Trading Bot", "Scheduled Scalping EA", "Scalping Bot/EA",
     "Martingale-Based EA", "Professional Day Trading EA", "Day Trading Bot",
     "Swing Trading Algorithm", "Long-Term Position Trading EA"}
FrequencyNames ==
    {"High-Frequency Trading (HFT)", "Scalping Strategy", "Day Trading Strategy",
     "Swing Trading Strategy", "Position Trading Strategy"}
Returned == pc \in {"identified", "repeated"} /\ ~IsEmpty(deals_df)

\* C29: for a non-empty deals table the label returned is one of rules 1-6:
\* the frequency detector's result carries one of its five names and no
\* pattern name contains "Grid", so "Grid Martingale EA" and the three labels
\* of the statistics rules are not produced.
C29_RuleLabelsOnly ==
    Returned =>
        /\ signature.likely_algorithm \in RuleLabels
        /\ \E i \in DOMAIN signature.patterns :
               /\ signature.patterns[i].description = "Trading frequency analysis"
               /\ signature.patterns[i].pattern_name \in FrequencyNames
        /\ \A i \in DOMAIN signature.patterns :
               ~Contains("Grid", signature.patterns[i].pattern_name)

\* a martingale table: rule 3 answers, without the grid label
C29_Witness ==
    /\ Returned
    /\ signature.patterns[1].pattern_name = "Martingale/Anti-Martingale"
    /\ signature.patterns[4].pattern_name = "Swing Trading Strategy"
    /\ signature.likely_algorithm = "Martingale-Based EA"

\* the descriptions of the five detectors' results, in the order of the calls
Descriptions ==
    <<"Position sizing strategy analysis", "Time-based trading pattern analysis",
      "Risk management strategy analysis", "Trading frequency analysis",
      "Instrument selection analysis">>

\* C30: for a non-empty deals table on which no detector raises, the
\* signature holds five patterns in the order position sizing, time, risk
\* management, frequency, symbol, with pattern_count = 5; an "Unknown" (0.0)
\* sizing result and an "Unknown Risk Management" (0.5) result stay in the
\* list and in the mean confidence.
C30_FivePatterns ==
    Returned =>
        /\ Len(signature.patterns) = 5
        /\ \A i \in 1..5 : signature.patterns[i].description = Descriptions[i]
        /\ signature.characteristics.pattern_count = 5
        /\ FMul(signature.confidence, Num(5)) = ConfidenceTotal(signature.patterns)

\* neither the lot sizes nor the (missing) orders are recognised
C30_Witness ==
    /\ Returned
    /\ Len(signature.patterns) = 5
    /\ signature.patterns[1].pattern_name = "Unknown"
    /\ signature.patterns[1].confidence = Num(0)
    /\ signature.patterns[3].pattern_name = "Unknown Risk Management"
    /\ signature.patterns[3].confidence = Frac(5, 10)
    /\ signature.characteristics.pattern_count = 5
    /\ FMul(signature.confidence, Num(5)) = ConfidenceTotal(signature.patterns)

-----------------------------------------------------------------------------
(* Claims about live use (checked under SpecLive) *)

\* C27: a fetch made without a connection returns to its caller something a
\* connected fetch that finds no records in the time range cannot return.
C27_FailureDistinct ==
    /\ (pc = "get_historical_deals" /\ ~connected) =>
           deals_df # GetHistoricalDeals(TRUE, <<>>, now, 30).frame
    /\ (pc = "get_historical_orders" /\ ~connected) =>
           orders_df # GetHistoricalOrders(TRUE, <<>>, now, 30).frame

\* the terminal is reachable and holds a deal made since last_deal_time
HasNewDeal ==
    /\ connected
    /\ \E i \in DOMAIN history_deals :
           last_deal_time <= history_deals[i].time /\ history_deals[i].time <= now

\* C28 as stated: every polling tick re-fetches the full snapshot and
\* re-runs identify_algorithm_type and the callback from scratch, whatever
\* earlier ticks did.
C28_RerunEveryTick ==
    [][MonitorLiveTick =>
           /\ deals_df' = (IF connected THEN history_deals ELSE EmptyFrame)
           /\ orders_df' = (IF connected THEN history_orders ELSE EmptyFrame)
           /\ signature' = SignatureOf(deals_df', orders_df')
           /\ callbacks' = callbacks + 1]_vars

\* C28: a polling tick re-fetches the full snapshot and re-runs
\* identify_algorithm_type and the callback from scratch exactly when the
\* terminal holds a deal made since last_deal_time, and then moves
\* last_deal_time to the present; any other tick fetches and runs nothing.
C28_RerunOnNewDeals ==
    [][MonitorLiveTick =>
           IF HasNewDeal
           THEN /\ deals_df' = history_deals
                /\ orders_df' = history_orders
                /\ signature' = SignatureOf(history_deals, history_orders)
                /\ callbacks' = callbacks + 1
                /\ last_deal_time' = now
           ELSE UNCHANGED <<deals_df, orders_df, signature, callbacks,
                            last_deal_time>>]_vars

\* two passes of the loop, the first of which met a deal and the second none
C28_Witness ==
    /\ pc = "monitor_live"
    /\ connected
    /\ now = Start + 2 * Interval
    /\ last_deal_time = Start
    /\ callbacks = 1
    /\ deals_df = history_deals
    /\ signature # NoSignature

====
